---- MODULE Spec2Model ----
(***************************************************************************)
(* Task execution engine of the Builder backend: the task store            *)
(* (backend/storage.py), the Task model (backend/models.py), the two agent *)
(* implementations (backend/agents/claude_agent.py, super_builder.py), the *)
(* workspace file layer (backend/utils/file_ops.py), the repository client *)
(* (backend/tools/github.py) and the HTTP handlers that drive them         *)
(* (backend/main.py).                                                      *)
(*                                                                         *)
(* Text is modelled as a sequence of whitespace-separated tokens; a token  *)
(* is a TLA+ string.  Python's None is the empty tuple and an Optional     *)
(* value v is the 1-tuple <<v>>, so that None differs from every value.    *)
(***************************************************************************)
EXTENDS Integers, Sequences, FiniteSets, TLC

VARIABLES
    store,      \* tasks.json: the sequence of persisted Task objects
    agentMode,  \* AGENT_MODE of backend/main.py: "claude" or "super"
    payload,    \* the task dict a caller holds between execute_task calls
    fs,         \* the file system: absolute path -> content, or Absent
    last,       \* record of the last operation (history, for the properties)
    local       \* the local variables of the worker loop and of the request
                \* being served, where their steps interleave

vars == <<store, agentMode, payload, fs, last, local>>

None == <<>>
Some(v) == <<v>>

\* The local variables of one caller: where it stands (pc), the Task it
\* loaded (task), the Task it is about to store (out), the list upsert_task
\* or a creation handler loaded (tasks).  NoTask stands for "not assigned".
Caller(pc, task, out, tasks) == [pc |-> pc, task |-> task, out |-> out, tasks |-> tasks]

\* "let v = e in F(v)": e is evaluated once and F sees its value.
Let(e, F(_)) == CHOOSE y \in {F(v) : v \in {e}} : TRUE

\* ------------------------------------------------------------------ bounds
MaxTasks == 2       \* tasks in the store
MaxLogs == 8        \* task log lines kept before a caller stops calling

\* ------------------------------------------------------------------ text
\* str.lower() on one token.
Lower(tok) ==
    CASE tok = "Create" -> "create"
      [] tok = "Read" -> "read"
      [] tok = "README.md" -> "readme.md"
      [] tok = "Main.py" -> "main.py"
      [] OTHER -> tok

LowerText(d) == [i \in 1..Len(d) |-> Lower(d[i])]

\* Tokens of the model's texts that properly contain a keyword as a substring.
SubstringPairs ==
    { <<"readme.md", "read">>, <<"checklist", "list">>, <<"profile", "file">>,
      <<"owner/repo", "repo">> }

\* `kw in token`
TokenHas(tok, kw) == tok = kw \/ <<tok, kw>> \in SubstringPairs

\* `kw in description` for a one-word keyword.
InText(kw, d) == \E i \in 1..Len(d) : TokenHas(d[i], kw)

\* `"a b" in description` for a two-word keyword: a token ending in a followed
\* by a token starting with b.
InText2(a, b, d) ==
    \E i \in 1..(Len(d) - 1) :
        /\ (d[i] = a \/ (a = "create" /\ d[i] = "recreate"))
        /\ (d[i + 1] = b \/ (b = "pr" /\ d[i + 1] = "project"))

\* str.strip() of a text: blank tokens at both ends are removed.
Strip(text) ==
    Let(text, LAMBDA s :
        Let({i \in 1..Len(s) : s[i] # " "}, LAMBDA solid :
            IF solid = {} THEN <<>>
            ELSE SubSeq(s, CHOOSE i \in solid : \A j \in solid : i <= j,
                           CHOOSE i \in solid : \A j \in solid : j <= i)))

\* File-name shaped tokens: they match [a-zA-Z0-9_\-./]+\.[a-z]+ from their start.
FileTokens == {"hello.py", "missing.txt", "../evil.py", "logo.png", "readme.md", "README.md"}

\* The match of \w+\.(py|js|ts|tsx|jsx|html|css|json|md|txt) inside a token.
AllowListMatch(tok) ==
    CASE tok = "hello.py" -> Some("hello.py")
      [] tok = "missing.txt" -> Some("missing.txt")
      [] tok = "../evil.py" -> Some("evil.py")
      [] tok = "readme.md" -> Some("readme.md")
      [] tok = "README.md" -> Some("README.md")
      [] OTHER -> None

\* The first index of d that satisfies P, or 0.
FirstIndex(d, P(_)) ==
    Let({i \in 1..Len(d) : P(i)}, LAMBDA hits :
        IF hits = {} THEN 0 ELSE CHOOSE i \in hits : \A j \in hits : i <= j)

EndsWithCreate(tok) == Lower(tok) \in {"create", "recreate"}
EndsWithFile(tok) == Lower(tok) \in {"file", "profile"}
EndsWithRepo(tok) == tok \in {"repo", "owner/repo"}

\* ClaudeAgent._extract_filename: the ordered patterns, first match wins.
ExtractFilename(text) ==
    Let(text, LAMBDA d :
        LET IsFileAt(i) == i <= Len(d) /\ d[i] \in FileTokens
            P1(i) == EndsWithCreate(d[i])
                     /\ \/ (i + 1 <= Len(d) /\ Lower(d[i + 1]) = "file" /\ IsFileAt(i + 2))
                        \/ IsFileAt(i + 1)
            P2(i) == EndsWithFile(d[i]) /\ IsFileAt(i + 1)
            P4(i) == AllowListMatch(d[i]) # None
        IN  Let(<<FirstIndex(d, P1), FirstIndex(d, P2), FirstIndex(d, P4)>>, LAMBDA ix :
                IF ix[1] # 0
                THEN IF ix[1] + 1 <= Len(d) /\ Lower(d[ix[1] + 1]) = "file"
                        /\ IsFileAt(ix[1] + 2)
                     THEN Some(d[ix[1] + 2]) ELSE Some(d[ix[1] + 1])
                ELSE IF ix[2] # 0 THEN Some(d[ix[2] + 1])
                ELSE IF ix[3] # 0 THEN AllowListMatch(d[ix[3]])
                ELSE None))

\* ------------------------------------------------------------------ files
\* backend/utils/file_ops.py.  A path is a sequence of segments; the file
\* system maps the absolute paths of the model to Absent, Dir or a file's text.
Absent == "<absent>"
Dir == "<dir>"

\* WORKSPACE_DIR.resolve()
Base == <<"repo", "workspace">>

\* The segments of a path string (split on "/"); "/" stands for the root an
\* absolute path starts at.
PathOf(name) ==
    CASE name = "" -> <<>>
      [] name = "../evil.py" -> <<"..", "evil.py">>
      [] name = "../../etc/passwd" -> <<"..", "..", "etc", "passwd">>
      [] name = "/etc/passwd" -> <<"/", "etc", "passwd">>
      [] name = "sub/dir/file.txt" -> <<"sub", "dir", "file.txt">>
      [] name = "sub/../hello.py" -> <<"sub", "..", "hello.py">>
      [] name = "../workspace2/secret.txt" -> <<"..", "workspace2", "secret.txt">>
      [] OTHER -> <<name>>

\* Path strings handed to the file layer.
RelPaths ==
    { "", "hello.py", "sub/dir/file.txt", "sub/../hello.py", "../evil.py",
      "../../etc/passwd", "/etc/passwd", "../workspace2/secret.txt" }

\* base / path followed by Path.resolve(): an absolute path replaces the
\* base, "." and ".." segments are folded away.
RECURSIVE Canonical(_, _)
Canonical(done0, rest0) ==
    Let(<<done0, rest0>>, LAMBDA a :
        LET done == a[1]
            rest == a[2]
        IN  IF rest = <<>> THEN done
            ELSE IF Head(rest) = "/" THEN Canonical(<<>>, Tail(rest))
            ELSE IF Head(rest) = "." THEN Canonical(done, Tail(rest))
            ELSE IF Head(rest) = ".."
                 THEN Canonical(IF done = <<>> THEN <<>> ELSE SubSeq(done, 1, Len(done) - 1),
                                Tail(rest))
            ELSE Canonical(Append(done, Head(rest)), Tail(rest)))

\* a.startswith(b) for two path segments.
SegmentStartsWith(a, b) == a = b \/ (a = "workspace2" /\ b = "workspace")

\* str(target).startswith(str(base)): a comparison of the two path strings.
StrStartsWith(target, base) ==
    /\ Len(target) >= Len(base)
    /\ \A i \in 1..(Len(base) - 1) : target[i] = base[i]
    /\ \/ (Len(target) = Len(base) /\ target[Len(base)] = base[Len(base)])
       \/ (Len(target) > Len(base) /\ target[Len(base)] = base[Len(base)])
       \/ (target[Len(base)] # base[Len(base)]
           /\ SegmentStartsWith(target[Len(base)], base[Len(base)]))

\* _resolve_path: the target, or the ValueError raised for a path outside.
ResolvePath(name) ==
    Let(Canonical(<<>>, Base \o PathOf(name)), LAMBDA target :
        IF StrStartsWith(target, Base)
        THEN [raised |-> FALSE, target |-> target, exc |-> "none"]
        ELSE [raised |-> TRUE, target |-> target, exc |-> "ValueError"])

\* The paths the model's file system tracks: every target a path string of
\* the model resolves to, and the directories above it.
FsPaths ==
    LET targets == {Base} \cup {Canonical(<<>>, Base \o PathOf(n)) :
                                    n \in FileTokens \cup RelPaths \cup {"evil.py"}}
    IN  UNION {{SubSeq(t, 1, k) : k \in 1..Len(t)} : t \in targets}

\* The directories above a target.
Ancestors(target) == {SubSeq(target, 1, k) : k \in 1..(Len(target) - 1)}

\* f holds a regular file at target.
IsFile(f, target) == target \in DOMAIN f /\ f[target] \notin {Absent, Dir}

\* What the file system holds at a path.
At(f, target) == IF target \in DOMAIN f THEN f[target] ELSE Absent

\* read_file: the text, or the exception raised.
ReadFile(f, name) ==
    Let(ResolvePath(name), LAMBDA r :
        IF r.raised THEN [raised |-> TRUE, exc |-> r.exc, text |-> ""]
        ELSE IF At(f, r.target) = Absent
             THEN [raised |-> TRUE, exc |-> "FileNotFoundError", text |-> ""]
        ELSE IF At(f, r.target) = Dir
             THEN [raised |-> TRUE, exc |-> "IsADirectoryError", text |-> ""]
        ELSE [raised |-> FALSE, exc |-> "none", text |-> At(f, r.target)])

\* A faulty write_file that leaves a file that already exists as it is.
WriteFileKeepsExisting(f, name, content) ==
    Let(ResolvePath(name), LAMBDA r :
        IF r.raised THEN [raised |-> TRUE, exc |-> r.exc, fs |-> f]
        ELSE IF \E a \in Ancestors(r.target) : IsFile(f, a)
             THEN [raised |-> TRUE, exc |-> "FileExistsError", fs |-> f]
        ELSE Let([p \in DOMAIN f |-> IF p \in Ancestors(r.target) THEN Dir ELSE f[p]],
                 LAMBDA withParents :
                    IF At(f, r.target) = Dir
                    THEN [raised |-> TRUE, exc |-> "IsADirectoryError", fs |-> withParents]
                    ELSE [raised |-> FALSE, exc |-> "none",
                          fs |-> IF r.target \in DOMAIN f /\ At(f, r.target) = Absent
                                 THEN [withParents EXCEPT ![r.target] = content]
                                 ELSE withParents]))

\* write_file: the new file system, or the exception raised.  The parent
\* directories are created (mkdir parents=True, exist_ok=True) before the
\* write; mkdir fails when a regular file stands where a directory is needed.
WriteFile(f, name, content) ==
    Let(ResolvePath(name), LAMBDA r :
        IF r.raised THEN [raised |-> TRUE, exc |-> r.exc, fs |-> f]
        ELSE IF \E a \in Ancestors(r.target) : IsFile(f, a)
             THEN [raised |-> TRUE, exc |-> "FileExistsError", fs |-> f]
        ELSE Let([p \in DOMAIN f |-> IF p \in Ancestors(r.target) THEN Dir ELSE f[p]],
                 LAMBDA withParents :
                    IF At(f, r.target) = Dir
                    THEN [raised |-> TRUE, exc |-> "IsADirectoryError", fs |-> withParents]
                    ELSE [raised |-> FALSE, exc |-> "none",
                          fs |-> IF r.target \in DOMAIN f
                                 THEN [withParents EXCEPT ![r.target] = content]
                                 ELSE withParents]))

\* The names of the entries of a directory, as list_dir collects them.
Children(f, target) ==
    {p[Len(p)] : p \in {q \in DOMAIN f : /\ Len(q) = Len(target) + 1
                                        /\ SubSeq(q, 1, Len(target)) = target
                                        /\ f[q] # Absent}}

\* list_dir: the entry names, or the exception raised.
ListDir(f, name) ==
    Let(ResolvePath(name), LAMBDA r :
        IF r.raised THEN [raised |-> TRUE, exc |-> r.exc, names |-> {}]
        ELSE IF At(f, r.target) = Absent \/ At(f, r.target) # Dir
             THEN [raised |-> TRUE, exc |-> "FileNotFoundError", names |-> {}]
        ELSE [raised |-> FALSE, exc |-> "none", names |-> Children(f, r.target)])

\* len(entries) as text.
CountText(n) ==
    CASE n = 0 -> "0" [] n = 1 -> "1" [] n = 2 -> "2" [] n = 3 -> "3" [] OTHER -> "many"

\* ------------------------------------------------------------------ services
\* What the text-completion call returns (_call_claude, _call_openai): None
\* when the client is absent or the call fails, otherwise a text.
TextReplies == {None, Some(""), Some("print('hi')")}

\* `if content:` on an Optional[str]
Truthy(reply) == reply # None /\ reply # Some("")

\* What the PyGithub library does under one GitHubTools call.
GhOutcomes == {"no_token", "ok", "is_dir", "missing", "api_error", "other_error"}

\* GitHubTools.read_file: only GithubException is caught.
GhReadFile(repo, path, gh) ==
    CASE gh = "no_token" ->
            [raised |-> FALSE, value |-> "Error: Repository not found or GitHub token missing."]
      [] gh = "ok" -> [raised |-> FALSE, value |-> "file_content"]
      [] gh = "is_dir" -> [raised |-> FALSE, value |-> "Error: path is a directory."]
      [] gh \in {"missing", "api_error"} -> [raised |-> FALSE, value |-> "Error reading file"]
      [] OTHER -> [raised |-> TRUE, value |-> ""]

\* GitHubTools.update_file: only GithubException is caught.
GhUpdateFile(repo, path, content, message, gh) ==
    CASE gh = "no_token" -> [raised |-> FALSE, value |-> "Error: Repository not found."]
      [] gh = "ok" -> [raised |-> FALSE, value |-> "File updated successfully."]
      [] gh = "is_dir" -> [raised |-> FALSE, value |-> "Error: path is a directory."]
      [] gh = "missing" -> [raised |-> FALSE, value |-> "File created successfully."]
      [] gh = "api_error" -> [raised |-> FALSE, value |-> "Error updating file"]
      [] OTHER -> [raised |-> TRUE, value |-> ""]

\* _now_iso() / datetime.utcnow().isoformat() read during an execute_task
\* call, and the created_at default a task is built with.  Times are not
\* ordered in the model: a stamp tells which of the two wrote updated_at.
Now == "now"
CreationTime == "created"
\* _now_iso() as the planning call stamps it on its new steps; every dispatch
\* comes later.
PlanTime == "planned"

\* ------------------------------------------------------------------ steps
\* A plan step as ClaudeAgent.execute_task creates it: no "result" key, and
\* the two stamps created_at and updated_at.
NewStep(desc) ==
    [description |-> desc, status |-> "pending", result |-> None, logs |-> <<>>,
     error |-> None, metadata |-> <<"{}">>, created_at |-> Some(PlanTime),
     updated_at |-> Some(PlanTime)]

\* Step(description=desc).dict(): the model's defaults.
ModelStep(desc) ==
    [description |-> desc, status |-> "pending", result |-> None, logs |-> <<>>,
     error |-> None, metadata |-> None, created_at |-> None, updated_at |-> None]

\* re.search(r"repo\s+([\w\-\.]+/?[\w\-\.]*)", description): group 1 or None.
RepoMatch(d) ==
    LET P(i) == EndsWithRepo(d[i]) /\ i + 1 <= Len(d)
    IN  Let(FirstIndex(d, P), LAMBDA i0 : IF i0 = 0 THEN None ELSE Some(d[i0 + 1]))

\* re.search(r"file\s+([\w\-\./]+)", description): group 1 or None.
FileMatch(d) ==
    LET P(i) == EndsWithFile(d[i]) /\ i + 1 <= Len(d)
    IN  Let(FirstIndex(d, P), LAMBDA i0 : IF i0 = 0 THEN None ELSE Some(d[i0 + 1]))

\* The branch of ClaudeAgent._execute_step_with_tools a lowered description
\* takes.
Branch(d) ==
    IF InText("github", d) THEN
        IF InText("read", d) THEN "github_read"
        ELSE IF InText("commit", d) \/ InText("update", d) THEN "github_update"
        ELSE IF InText2("create", "pr", d) \/ InText2("pull", "request", d)
             THEN "github_pr"
        ELSE "github_none"
    ELSE IF InText("create", d) /\ InText("file", d) THEN "create_file"
    ELSE IF InText("read", d) /\ InText("file", d) THEN "read_file"
    ELSE IF InText("list", d) \/ InText("explore", d) THEN "list"
    ELSE "fallback"

\* The outcome of one dispatch: the step, the file system, the calls made to
\* the repository client, and whether an exception left the dispatcher.
Outcome(step, f, calls, raised) ==
    [step |-> step, fs |-> f, calls |-> calls, raised |-> raised]

\* _execute_step_with_tools, the "github" and "read" branch.
GithubRead(step, d, gh, f) ==
    Let(<<RepoMatch(d), FileMatch(d)>>, LAMBDA m :
        IF m[1] # None /\ m[2] # None
        THEN Let(GhReadFile(m[1][1], m[2][1], gh), LAMBDA r :
                IF r.raised
                THEN Outcome(step, f, << <<"read_file", m[1][1], m[2][1]>> >>, TRUE)
                ELSE Outcome([step EXCEPT !.result = <<"GitHub Read Result:", r.value>>,
                                          !.logs = Append(@, "Read GitHub file")],
                             f, << <<"read_file", m[1][1], m[2][1]>> >>, FALSE))
        ELSE Outcome([step EXCEPT !.result = Some("Could not parse repo or file from description")],
                     f, <<>>, FALSE))

\* _execute_step_with_tools, the "github" and "commit"/"update" branch.
GithubUpdate(step, d, llm, gh, f) ==
    Let(<<RepoMatch(d), FileMatch(d)>>, LAMBDA m :
        IF m[1] # None /\ m[2] # None
        THEN IF Truthy(llm)
             THEN Let(GhUpdateFile(m[1][1], m[2][1], llm[1], <<"Update", m[2][1]>>, gh),
                      LAMBDA r :
                        LET call == <<"update_file", m[1][1], m[2][1], llm[1], "Update", m[2][1]>>
                        IN  IF r.raised
                            THEN Outcome(step, f, <<call>>, TRUE)
                            ELSE Outcome([step EXCEPT !.result = Some(r.value),
                                                      !.logs = Append(@, r.value)],
                                         f, <<call>>, FALSE))
             ELSE Outcome([step EXCEPT !.result = Some("Failed to generate content for commit")],
                          f, <<>>, FALSE)
        ELSE Outcome([step EXCEPT !.result = Some("Could not parse repo or file for commit")],
                     f, <<>>, FALSE))

\* A faulty create-file branch that reports the file as created without
\* writing it.
CreateFileWithoutWrite(step, llm, f) ==
    IF Truthy(llm)
    THEN Let(ExtractFilename(step.description), LAMBDA filename :
            IF filename # None
            THEN Outcome([step EXCEPT !.logs = Append(@, "Created file"),
                                      !.result = <<"Successfully created", filename[1]>>,
                                      !.metadata = <<"filename", filename[1], "size", llm[1]>>],
                         f, <<>>, FALSE)
            ELSE Outcome([step EXCEPT !.result = Some("Generated content but couldn't determine filename"),
                                      !.logs = Append(@, "Warning: Could not extract filename")],
                         f, <<>>, FALSE))
    ELSE Outcome([step EXCEPT !.result = Some("Could not generate file content (Claude unavailable)"),
                              !.logs = Append(@, "Warning: File generation skipped")],
                 f, <<>>, FALSE)

\* _execute_step_with_tools, the "create" and "file" branch.
CreateFile(step, llm, f) ==
    IF Truthy(llm)
    THEN Let(ExtractFilename(step.description), LAMBDA filename :
            IF filename # None
            THEN Let(WriteFile(f, filename[1], llm[1]), LAMBDA w :
                    IF w.raised
                    THEN Outcome([step EXCEPT !.error = <<"Failed to create file:", w.exc>>,
                                              !.logs = Append(@, "Error")],
                                 w.fs, <<>>, FALSE)
                    ELSE Outcome([step EXCEPT !.logs = Append(@, "Created file"),
                                              !.result = <<"Successfully created", filename[1]>>,
                                              !.metadata = <<"filename", filename[1], "size", llm[1]>>],
                                 w.fs, <<>>, FALSE))
            ELSE Outcome([step EXCEPT !.result = Some("Generated content but couldn't determine filename"),
                                      !.logs = Append(@, "Warning: Could not extract filename")],
                         f, <<>>, FALSE))
    ELSE Outcome([step EXCEPT !.result = Some("Could not generate file content (Claude unavailable)"),
                              !.logs = Append(@, "Warning: File generation skipped")],
                 f, <<>>, FALSE)

\* A faulty read-file branch without the try/except around read_file: the
\* exception leaves the dispatcher.
ReadLocalFileUncaught(step, f) ==
    Let(ExtractFilename(step.description), LAMBDA filename :
        IF filename # None
        THEN Let(ReadFile(f, filename[1]), LAMBDA r :
                IF r.raised
                THEN Outcome(step, f, <<>>, TRUE)
                ELSE Outcome([step EXCEPT !.result = <<"Read characters from", filename[1]>>,
                                          !.logs = Append(@, "Successfully read"),
                                          !.metadata = <<"filename", filename[1],
                                                         "content_preview", r.text>>],
                             f, <<>>, FALSE))
        ELSE Outcome([step EXCEPT !.result = Some("Could not determine which file to read"),
                                  !.logs = Append(@, "Warning: Filename not found in description")],
                     f, <<>>, FALSE))

\* _execute_step_with_tools, the "read" and "file" branch.
ReadLocalFile(step, f) ==
    Let(ExtractFilename(step.description), LAMBDA filename :
        IF filename # None
        THEN Let(ReadFile(f, filename[1]), LAMBDA r :
                IF r.raised
                THEN Outcome([step EXCEPT !.error = <<"Failed to read file:", r.exc>>,
                                          !.logs = Append(@, "Error")],
                             f, <<>>, FALSE)
                ELSE Outcome([step EXCEPT !.result = <<"Read characters from", filename[1]>>,
                                          !.logs = Append(@, "Successfully read"),
                                          !.metadata = <<"filename", filename[1],
                                                         "content_preview", r.text>>],
                             f, <<>>, FALSE))
        ELSE Outcome([step EXCEPT !.result = Some("Could not determine which file to read"),
                                  !.logs = Append(@, "Warning: Filename not found in description")],
                     f, <<>>, FALSE))

\* A faulty listing branch that saves a note of the listing in the workspace.
ListWorkspaceSavesNote(step, f) ==
    Let(ListDir(f, ""), LAMBDA r :
        IF r.raised
        THEN Outcome([step EXCEPT !.error = <<"Failed to list directory:", r.exc>>,
                                  !.logs = Append(@, "Error")],
                     f, <<>>, FALSE)
        ELSE Let(CountText(Cardinality(r.names)), LAMBDA n :
                Outcome([step EXCEPT !.result = <<"Found items in workspace", n>>,
                                     !.logs = Append(@, "Listed workspace"),
                                     !.metadata = <<"entries", n>>],
                        WriteFile(f, "hello.py", "listing").fs, <<>>, FALSE)))

\* _execute_step_with_tools, the "list"/"explore" branch.
ListWorkspace(step, f) ==
    Let(ListDir(f, ""), LAMBDA r :
        IF r.raised
        THEN Outcome([step EXCEPT !.error = <<"Failed to list directory:", r.exc>>,
                                  !.logs = Append(@, "Error")],
                     f, <<>>, FALSE)
        ELSE Let(CountText(Cardinality(r.names)), LAMBDA n :
                Outcome([step EXCEPT !.result = <<"Found items in workspace", n>>,
                                     !.logs = Append(@, "Listed workspace"),
                                     !.metadata = <<"entries", n>>],
                        f, <<>>, FALSE)))

\* A faulty fallback branch that stores the lowered description back into the
\* step.
GuidanceLowersDescription(step, llm, f) ==
    Outcome([step EXCEPT !.description = LowerText(@) \o <<"(done)">>,
                         !.result = llm,
                         !.logs = Append(@, "Step guidance")],
            f, <<>>, FALSE)

\* _execute_step_with_tools, the fallback branch.
Guidance(step, llm, f) ==
    IF Truthy(llm)
    THEN Outcome([step EXCEPT !.result = llm, !.logs = Append(@, "Step guidance")],
                 f, <<>>, FALSE)
    ELSE Outcome([step EXCEPT !.result = <<"Completed step:">> \o step.description,
                              !.logs = Append(@, "Step completed (no specific actions)")],
                 f, <<>>, FALSE)

\* ClaudeAgent._execute_step_with_tools: the branch taken, then
\* step["updated_at"] = _now_iso() (line 280) unless an exception left it.
ExecuteStepWithTools(step, goal, llm, gh, f) ==
    Let(LowerText(step.description), LAMBDA d :
        Let(Branch(d), LAMBDA b :
            Let(CASE b = "github_read" -> GithubRead(step, d, gh, f)
                  [] b = "github_update" -> GithubUpdate(step, d, llm, gh, f)
                  [] b = "github_pr" ->
                        Outcome([step EXCEPT !.result = Some("PR creation requires more structured input")],
                                f, <<>>, FALSE)
                  [] b = "github_none" -> Outcome(step, f, <<>>, FALSE)
                  [] b = "create_file" -> CreateFile(step, llm, f)
                  [] b = "read_file" -> ReadLocalFile(step, f)
                  [] b = "list" -> ListWorkspace(step, f)
                  [] OTHER -> Guidance(step, llm, f),
                LAMBDA o : IF o.raised THEN o
                           ELSE [o EXCEPT !.step.updated_at = Some(Now)])))

\* ------------------------------------------------------------------ planning
\* `if len(steps) < 8` of _parse_steps_from_text
MaxRawSteps == 8

\* A line of a completion text: kind "blank"; "num" (starts with a digit and
\* holds a "."; body is the text after the first "."); "bullet" (starts with
\* -, * or the bullet glyph; body is the text after the glyphs); "raw".
\* text is the whole stripped line.
Line(kind, text, body) == [kind |-> kind, text |-> text, body |-> body]

\* ClaudeAgent._parse_steps_from_text
RECURSIVE ParseSteps(_, _)
ParseSteps(lines0, steps0) ==
    Let(<<lines0, steps0>>, LAMBDA a :
        LET lines == a[1]
            steps == a[2]
        IN  IF lines = <<>> THEN steps
            ELSE Let(<<Head(lines), Strip(Head(lines).body), Tail(lines)>>, LAMBDA h :
                    IF h[1].kind = "blank" THEN ParseSteps(h[3], steps)
                    ELSE IF h[1].kind = "num" /\ h[2] # <<>>
                         THEN ParseSteps(h[3], Append(steps, h[2]))
                    ELSE IF h[1].kind = "bullet"
                         THEN ParseSteps(h[3], Append(steps, h[2]))
                    ELSE IF Len(steps) < MaxRawSteps
                         THEN ParseSteps(h[3], Append(steps, h[1].text))
                    ELSE ParseSteps(h[3], steps)))

\* A faulty _static_plan that ignores the goal it is given.
StaticPlanWithoutGoal(goal) ==
    << <<"Analyze the goal and clarify requirements for:", "the requested task">>,
       <<"Design and implement a solution for:", "the requested task">>,
       <<"Test, review, and refine the solution for:", "the requested task">> >>

\* ClaudeAgent._static_plan
StaticPlan(goal) ==
    Let(Strip(goal), LAMBDA g :
        Let(IF g # <<>> THEN g ELSE <<"the requested task">>, LAMBDA cleaned :
            << <<"Analyze the goal and clarify requirements for:">> \o cleaned,
               <<"Design and implement a solution for:">> \o cleaned,
               <<"Test, review, and refine the solution for:">> \o cleaned >>))

\* A faulty _create_plan without the static fallback: whatever was parsed is
\* the plan, and no completion means no step.
ClaudeCreatePlanNoFallback(goal, reply) ==
    IF reply = None THEN <<>> ELSE ParseSteps(reply[1], <<>>)

\* ClaudeAgent._create_plan.  reply is what _call_claude returns: None, or
\* Some(lines); a text without any line is the empty string.
ClaudeCreatePlan(goal, reply) ==
    Let(Strip(goal), LAMBDA g :
        IF g = <<>> THEN StaticPlan(<<"the requested task">>)
        ELSE IF reply = None \/ reply = Some(<<>>) THEN StaticPlan(g)
        ELSE Let(ParseSteps(reply[1], <<>>), LAMBDA steps :
                IF steps = <<>> THEN StaticPlan(g) ELSE steps))

\* ------------------------------------------------------------------ ClaudeAgent
\* The result of one execute_task call: the task returned (the argument when
\* the call raised), the file system, the plan indices handed to the
\* dispatcher, the repository calls, and whether the call raised.
Result(task, f, dispatched, calls, raised) ==
    [task |-> task, fs |-> f, dispatched |-> dispatched, calls |-> calls,
     raised |-> raised]

\* ClaudeAgent.execute_task, lines 332-354: no plan yet.
ClaudePlan(task, reply, f) ==
    Let(ClaudeCreatePlan(task.goal, reply), LAMBDA descriptions :
        Let([i \in 1..Len(descriptions) |-> NewStep(descriptions[i])], LAMBDA steps :
            Result([task EXCEPT !.plan = steps,
                                !.current_step = IF steps # <<>> THEN Some(0) ELSE None,
                                !.status = "in_progress",
                                !.logs = Append(@, "Plan created by ClaudeAgent.")],
                   f, <<>>, <<>>, FALSE)))

\* A faulty step that always moves to the next index and never completes the
\* task.
ClaudeStepNeverFinishes(task, idx, llm, gh, f) ==
    Let(ExecuteStepWithTools(task.plan[idx + 1], task.goal, llm, gh, f), LAMBDA o :
        Result([task EXCEPT
                    !.plan = [@ EXCEPT ![idx + 1] = [o.step EXCEPT !.status = "completed"]],
                    !.current_step = Some(idx + 1),
                    !.status = "in_progress",
                    !.logs = Append(@, "Completed step")],
               o.fs, <<idx>>, o.calls, o.raised))

\* ClaudeAgent.execute_task, lines 368-387: dispatch the current step.
ClaudeStep(task, idx, llm, gh, f) ==
    Let(ExecuteStepWithTools(task.plan[idx + 1], task.goal, llm, gh, f), LAMBDA o :
        LET more == idx + 1 < Len(task.plan)
        IN  IF o.raised THEN Result(task, o.fs, <<idx>>, o.calls, TRUE)
            ELSE Result([task EXCEPT
                            !.plan = [@ EXCEPT ![idx + 1] = [o.step EXCEPT !.status = "completed"]],
                            !.current_step = IF more THEN Some(idx + 1) ELSE None,
                            !.status = IF more THEN "in_progress" ELSE "completed",
                            !.logs = IF more THEN Append(@, "Completed step")
                                     ELSE @ \o <<"Completed step",
                                                 "All steps completed by ClaudeAgent.">>],
                        o.fs, <<idx>>, o.calls, FALSE))

\* A faulty execute_task without the range check of lines 362-366: an index
\* outside the plan is handled like a missing one.
ClaudeDispatchNoRangeCheck(task, reply, llm, gh, f) ==
    IF task.plan = <<>> THEN ClaudePlan(task, reply, f)
    ELSE IF \/ task.current_step = None
            \/ task.current_step[1] < 0
            \/ task.current_step[1] >= Len(task.plan)
         THEN Result([task EXCEPT !.status = "completed",
                                  !.logs = Append(@, "Task marked completed; no active step.")],
                     f, <<>>, <<>>, FALSE)
    ELSE ClaudeStep(task, task.current_step[1], llm, gh, f)

\* ClaudeAgent.execute_task, lines 330-387, on the copy of the task dict that
\* line 328 has stamped.
ClaudeDispatch(task, reply, llm, gh, f) ==
    IF task.plan = <<>> THEN ClaudePlan(task, reply, f)
    ELSE IF task.current_step = None
         THEN Result([task EXCEPT !.status = "completed",
                                  !.logs = Append(@, "Task marked completed; no active step.")],
                     f, <<>>, <<>>, FALSE)
    ELSE IF task.current_step[1] < 0 \/ task.current_step[1] >= Len(task.plan)
         THEN Result([task EXCEPT !.status = "completed",
                                  !.current_step = None,
                                  !.logs = Append(@, "current_step index out of range; forcing task to completed.")],
                     f, <<>>, <<>>, FALSE)
    ELSE ClaudeStep(task, task.current_step[1], llm, gh, f)

\* ClaudeAgent.execute_task: task = dict(task_dict); task["updated_at"] =
\* _now_iso(); then the branches.  When the call raises, the caller keeps the
\* dict it passed.
ClaudeExecuteTask(task, reply, llm, gh, f) ==
    Let(ClaudeDispatch([task EXCEPT !.updated_at = Now], reply, llm, gh, f), LAMBDA r :
        IF r.raised THEN [r EXCEPT !.task = task] ELSE r)

\* ------------------------------------------------------------------ SuperBuilderAgent
\* What _call_openai returns to SuperBuilderAgent._create_plan: None, or one of
\*   [kind |-> "json_list", items |-> the strings of a JSON array of strings]
\*   [kind |-> "json_other"]   valid JSON that is no array of strings
\*   [kind |-> "text", items |-> the lines of a text that is no JSON]
SuperReply(kind, items) == Some([kind |-> kind, items |-> items])

\* [line.strip("- ").strip() for line in reply.split("\n") if line.strip()]
SuperLines(lines) ==
    Let(SelectSeq(lines, LAMBDA ln : ln.kind # "blank"), LAMBDA kept :
        [i \in 1..Len(kept) |->
            IF kept[i].kind = "bullet" THEN Strip(kept[i].body) ELSE kept[i].text])

\* SuperBuilderAgent._create_plan
SuperCreatePlan(goal, reply) ==
    Let(Strip(goal), LAMBDA g :
        Let(IF g # <<>> THEN g ELSE <<"the task">>, LAMBDA cleaned :
            LET fallback == << <<"Analyze the goal:">> \o cleaned,
                               <<"Design and implement a solution for:">> \o cleaned,
                               <<"Test and review the solution for:">> \o cleaned >>
            IN  IF reply = None THEN fallback
                ELSE IF reply[1].kind = "json_list" THEN reply[1].items
                ELSE IF reply[1].kind = "text"
                     THEN Let(SuperLines(reply[1].items), LAMBDA lines :
                            IF lines # <<>> THEN lines ELSE fallback)
                ELSE fallback))

\* description.split(":", 1)[1].strip(): the path after the first colon, or None.
AfterColon(d) ==
    LET P(i) == d[i] = ":"
    IN  Let(FirstIndex(d, P), LAMBDA i0 :
            IF i0 = 0 THEN None
            ELSE IF i0 = Len(d) THEN Some("")
            ELSE IF i0 + 1 = Len(d) THEN Some(d[i0 + 1])
            ELSE Some("several words"))

\* description_lower.startswith("<verb> <noun>")
StartsWith2(d, verb, noun) == Len(d) >= 2 /\ Lower(d[1]) = verb /\ Lower(d[2]) = noun

\* The step and task-log lines of one SuperBuilderAgent step (lines 111-226).
\* step.setdefault("error", msg) leaves an error key that is present untouched.
SuperAct(step, llm, f) ==
    Let(<<step.description, AfterColon(step.description)>>, LAMBDA dp :
        LET d == dp[1]
            path == dp[2]
            log(line) == [step |-> [step EXCEPT !.logs = Append(@, line)], tasklog |-> <<line>>]
            withResult(res, line) ==
                [step |-> [step EXCEPT !.result = res, !.logs = Append(@, line)],
                 tasklog |-> <<line>>]
            default == IF Truthy(llm) THEN withResult(llm, llm[1])
                       ELSE withResult(<<"Executed step:">> \o d, "Executed step")
        IN  IF StartsWith2(d, "read", "file") THEN
                IF path = None THEN default
                ELSE Let(ReadFile(f, path[1]), LAMBDA r :
                        IF r.raised THEN log("Error reading")
                        ELSE withResult(Some(r.text), "Read successfully."))
            ELSE IF StartsWith2(d, "write", "file") THEN
                IF path = None THEN default ELSE log("Error writing: No content provided")
            ELSE IF StartsWith2(d, "diff", "file") THEN
                IF path = None THEN default ELSE log("Error diffing: No new content provided")
            ELSE IF StartsWith2(d, "list", "dir") THEN
                Let(ListDir(f, IF path = None THEN "" ELSE path[1]), LAMBDA r :
                    IF r.raised THEN log("Error listing directory")
                    ELSE withResult(<<"entries", CountText(Cardinality(r.names))>>,
                                    "Listed directory successfully."))
            ELSE default)

\* SuperBuilderAgent.execute_task, lines 98-103: plan when there is none.
SuperPlan(task, reply) ==
    IF task.plan = <<>>
    THEN Let(SuperCreatePlan(task.goal, reply), LAMBDA ds :
            [task EXCEPT !.plan = [i \in 1..Len(ds) |-> ModelStep(ds[i])],
                         !.status = "in_progress",
                         !.current_step = Some(0)])
    ELSE task

\* A faulty step that moves to the next index and leaves the step it ran
\* pending.
SuperStepLeavesPending(planned, llm, f) ==
    LET n == Len(planned.plan)
        idx == planned.current_step[1]
        pos == IF idx >= 0 THEN idx + 1 ELSE n + idx + 1
        status(cs) == IF cs >= n THEN "completed" ELSE "in_progress"
    IN  IF idx < n /\ planned.plan[pos].status = "pending"
        THEN Let(SuperAct(planned.plan[pos], llm, f), LAMBDA a :
                Result([planned EXCEPT
                           !.plan = [@ EXCEPT ![pos] = a.step],
                           !.logs = @ \o a.tasklog,
                           !.current_step = Some(idx + 1),
                           !.status = status(idx + 1),
                           !.updated_at = Now],
                       f, <<idx>>, <<>>, FALSE))
        ELSE Result([planned EXCEPT !.status = status(idx), !.updated_at = Now],
                    f, <<>>, <<>>, FALSE)

\* SuperBuilderAgent.execute_task, lines 105-238: run the current step when it
\* is pending, then set the status.  plan[idx] with a negative idx counts from
\* the end of the list.
SuperStep(planned, llm, f) ==
    LET n == Len(planned.plan)
        idx == planned.current_step[1]
        pos == IF idx >= 0 THEN idx + 1 ELSE n + idx + 1
        status(cs) == IF cs >= n THEN "completed" ELSE "in_progress"
    IN  IF idx < n /\ planned.plan[pos].status = "pending"
        THEN Let(SuperAct(planned.plan[pos], llm, f), LAMBDA a :
                Result([planned EXCEPT
                           !.plan = [@ EXCEPT ![pos] = [a.step EXCEPT !.status = "completed"]],
                           !.logs = @ \o a.tasklog,
                           !.current_step = Some(idx + 1),
                           !.status = status(idx + 1),
                           !.updated_at = Now],
                       f, <<idx>>, <<>>, FALSE))
        ELSE Result([planned EXCEPT !.status = status(idx), !.updated_at = Now],
                    f, <<>>, <<>>, FALSE)

\* SuperBuilderAgent.execute_task.  int(None) raises TypeError; plan[idx]
\* raises IndexError when -idx exceeds the length of the plan.
SuperExecuteTask(task, reply, llm, f) ==
    Let(SuperPlan(task, reply), LAMBDA planned :
        IF planned.current_step = None
           \/ planned.current_step[1] < 0 - Len(planned.plan)
        THEN Result(task, f, <<>>, <<>>, TRUE)
        ELSE SuperStep(planned, llm, f))

\* ------------------------------------------------------------------ Task model
\* str(uuid.uuid4()), the id create_task_direct takes when the store holds no
\* numeric id: no digit string, so int() rejects it.  Every other id is >= 1.
UuidId == 0

\* Step(**step_dict): the keys the model does not declare (created_at and
\* updated_at of ClaudeAgent's step dicts) are ignored, so the Step does not
\* hold them.
StepModel(s) == [s EXCEPT !.created_at = None, !.updated_at = None]

\* Task(**task_dict): pydantic validation.  current_step is declared int, so
\* None is rejected with a ValidationError; id is declared int, so a UUID
\* string is rejected too.  The steps of the plan become Step objects.
TaskModel(d) ==
    IF d.current_step = None \/ d.id = UuidId
    THEN [raised |-> TRUE, task |-> d]
    ELSE [raised |-> FALSE,
          task |-> [d EXCEPT !.plan = [i \in 1..Len(d.plan) |-> StepModel(d.plan[i])]]]

\* Task(id=..., goal=..., status="queued", plan=[], logs=[...]): current_step
\* takes the model's default, 0.
NewTask(id, goal, firstLog) ==
    [id |-> id, goal |-> goal, status |-> "queued", plan |-> <<>>,
     current_step |-> Some(0), logs |-> <<firstLog>>, updated_at |-> CreationTime]

\* ------------------------------------------------------------------ storage
\* A faulty upsert_task that drops the stored task of the id and appends the
\* new one at the end.
UpsertTaskMovesToEnd(tasks, task) ==
    Append(SelectSeq(tasks, LAMBDA t : t.id # task.id), task)

\* upsert_task: replace the first task with the id, or append.
UpsertTask(tasks, task) ==
    LET P(i) == tasks[i].id = task.id
    IN  Let(FirstIndex(tasks, P), LAMBDA i0 :
            IF i0 = 0 THEN Append(tasks, task) ELSE [tasks EXCEPT ![i0] = task])

\* _find_task: the index of the first task with the id, or 0 (HTTP 404).
FindTask(tasks, id) ==
    LET P(i) == tasks[i].id = id IN FirstIndex(tasks, P)

\* A faulty id rule that numbers a new task by the count of stored tasks.
NextIdByCount(tasks) == Len(tasks) + 1

\* max(numeric_ids) + 1, or the UUID taken when no id is numeric.
NextId(tasks) ==
    LET ids == {tasks[i].id : i \in 1..Len(tasks)}
    IN  IF ids = {} THEN UuidId
        ELSE (CHOOSE m \in ids : \A k \in ids : k <= m) + 1

\* _get_agent().execute_task(task_dict) under an agent mode.
ExecuteTask(mode, task, reply, sreply, llm, gh, f) ==
    IF mode = "claude" THEN ClaudeExecuteTask(task, reply, llm, gh, f)
    ELSE SuperExecuteTask(task, sreply, llm, f)

\* ------------------------------------------------------------------ inputs
Goals == { <<>>, <<" ">>, <<"build", "app">> }

\* Completion texts ClaudeAgent._create_plan may receive.
PlanReplies ==
    { None,
      Some(<<>>),
      Some(<< Line("blank", <<>>, <<>>) >>),
      Some(<< Line("num", <<"1.", "Create", "file", "hello.py">>, <<"Create", "file", "hello.py">>),
              Line("num", <<"2.", "Read", "file", "hello.py">>, <<"Read", "file", "hello.py">>),
              Line("bullet", <<"-", "list", "files">>, <<"list", "files">>) >>),
      Some(<< Line("raw", <<"Read", "file", "README.md", "from", "github", "repo", "owner/repo">>, <<>>),
              Line("bullet", <<"-">>, <<>>),
              Line("num", <<"3.">>, <<>>) >>) }

\* Further completion texts, whose steps take the remaining branches of the
\* dispatcher; the callers of CallSpec receive them too.
MorePlanReplies ==
    { Some(<< Line("raw", <<"update", "file", "hello.py", "in", "github", "repo", "owner/repo">>, <<>>),
              Line("raw", <<"create", "pr", "on", "github">>, <<>>),
              Line("raw", <<"Create", "file", "../evil.py">>, <<>>),
              Line("raw", <<"Read", "file", "missing.txt">>, <<>>) >>),
      Some(<< Line("raw", <<"github", "status">>, <<>>),
              Line("raw", <<"explore">>, <<>>),
              Line("raw", <<"Create", "file">>, <<>>),
              Line("raw", <<"write", "tests">>, <<>>) >>),
      Some(<< Line("raw", <<"Read", "file", "logo.png", "from", "github", "repo", "owner/repo">>,
                   <<>>) >>),
      Some(<< Line("raw", <<"Read", "file", "readme.md", "from", "repo", "owner/repo">>, <<>>),
              Line("raw", <<"update", "file", "hello.py", "in", "repo", "owner/repo">>, <<>>),
              Line("raw", <<"read", "github", "issues">>, <<>>),
              Line("raw", <<"update", "file", "Main.py", "in", "github", "repo", "owner/repo">>,
                   <<>>) >>) }

\* Completion texts SuperBuilderAgent._create_plan may receive.
SuperReplies ==
    { None,
      SuperReply("json_list", <<>>),
      SuperReply("json_list", << <<"read", "file", ":", "readme.md">>, <<"list", "dir">> >>),
      SuperReply("json_other", <<>>),
      SuperReply("text", << Line("bullet", <<"-", "write", "file", ":", "hello.py">>,
                                 <<"write", "file", ":", "hello.py">>) >>) }

\* What the services answer during one execute_task call.  ClaudeAgent makes
\* one completion call per execute_task (the plan, or the step's text) and at
\* most one repository call; SuperBuilderAgent plans and runs the first step
\* in the same call, with one completion each.
Env(reply, sreply, llm, gh) == [reply |-> reply, sreply |-> sreply, llm |-> llm, gh |-> gh]

Envs(mode, replies) ==
    IF mode = "claude"
    THEN {Env(r, None, None, "ok") : r \in replies}
         \cup {Env(None, None, l, g) : l \in TextReplies, g \in GhOutcomes}
    ELSE {Env(None, sr, l, "ok") : sr \in SuperReplies, l \in TextReplies}

NoTask == [id |-> UuidId, goal |-> <<>>, status |-> "none", plan |-> <<>>,
           current_step |-> None, logs |-> <<>>, updated_at |-> CreationTime]

\* A caller at rest, and the callers where nothing runs concurrently: w is the
\* worker loop, r the HTTP request being served.
AtRest == Caller("idle", NoTask, NoTask, <<>>)
NoLocal == [w |-> AtRest, r |-> AtRest]

\* No service is called.
NoEnv == Env(None, None, None, "no_token")

\* The record of one call: what it was given (pre, the file system fsBefore
\* it found, and for a caller of execute_task the answers env of the
\* services), and what came back.
Op(op, agent, pre, r, env) ==
    [op |-> op, agent |-> agent, pre |-> pre, post |-> r.task, raised |-> r.raised,
     dispatched |-> r.dispatched, calls |-> r.calls, env |-> env, fsBefore |-> fs]

\* The file system at start: no workspace directory yet, or a workspace
\* holding one file.
InitialFs ==
    { [p \in FsPaths |-> IF p \in Ancestors(Base) THEN Dir ELSE Absent],
      [p \in FsPaths |-> IF p = Base \/ p \in Ancestors(Base) THEN Dir
                         ELSE IF p = Base \o <<"readme.md">> THEN "old"
                         ELSE Absent] }

\* ------------------------------------------------------------------ actions
Init ==
    /\ local = NoLocal
    /\ agentMode \in {"claude", "super"}
    /\ store \in { <<>>, <<NewTask(1, <<"build", "app">>, "Task created.")>> }
    /\ payload = None
    /\ fs \in InitialFs
    /\ last = Op("init", "none", NoTask, Result(NoTask, fs, <<>>, <<>>, FALSE), NoEnv)

\* create_task_direct (POST /tasks)
CreateTaskDirect(goal) ==
    /\ Len(store) < MaxTasks
    /\ \E m \in {TaskModel(NewTask(NextId(store), goal, "Task created."))} :
        /\ store' = IF m.raised THEN store ELSE Append(store, m.task)
        /\ last' = Op("create", "none", NoTask, Result(m.task, fs, <<>>, <<>>, m.raised), NoEnv)
    /\ UNCHANGED <<local, agentMode, payload, fs>>

\* A faulty run_task_direct, which saves whatever the agent handed back
\* before it looks at the outcome of the call.
RunTaskDirectSavesFirst(id, e) ==
    \E i \in {FindTask(store, id)} :
        /\ i # 0
        /\ Len(store[i].logs) < MaxLogs
        /\ \E r \in {ExecuteTask(agentMode, store[i], e.reply, e.sreply, e.llm, e.gh, fs)} :
           \E failed \in {r.raised \/ TaskModel(r.task).raised} :
                /\ store' = UpsertTask(store, [r.task EXCEPT !.status = "failed"])
                /\ fs' = r.fs
                /\ last' = [Op("run", agentMode, store[i], r, NoEnv) EXCEPT !.raised = failed]
        /\ UNCHANGED <<local, agentMode, payload>>

\* run_task_direct (POST /tasks/{task_id}/run): one execute_task call on the
\* stored task, then Task(**payload) and upsert_task.
RunTaskDirect(id, e) ==
    \E i \in {FindTask(store, id)} :
        /\ i # 0
        /\ Len(store[i].logs) < MaxLogs
        /\ \E r \in {ExecuteTask(agentMode, store[i], e.reply, e.sreply, e.llm, e.gh, fs)} :
           \E failed \in {r.raised \/ TaskModel(r.task).raised} :
                /\ store' = IF failed THEN store
                            ELSE UpsertTask(store, TaskModel(r.task).task)
                /\ fs' = r.fs
                /\ last' = [Op("run", agentMode, store[i], r, NoEnv) EXCEPT !.raised = failed]
        /\ UNCHANGED <<local, agentMode, payload>>

\* task_payload = agent.execute_task(task_payload) (main.py:676, worker.py:43):
\* a caller advances the task dict it holds; the file system is shared.
Advance(e) ==
    /\ payload # None
    /\ Len(payload[1].logs) < MaxLogs
    /\ \E r \in {ExecuteTask(agentMode, payload[1], e.reply, e.sreply, e.llm, e.gh, fs)} :
        /\ payload' = Some(r.task)
        /\ fs' = r.fs
        /\ last' = Op("advance", agentMode, payload[1], r, e)
    /\ UNCHANGED <<local, store, agentMode>>

\* The HTTP handlers working on the task store.
Next ==
    \/ \E g \in Goals : CreateTaskDirect(g)
    \/ \E id \in 1..MaxTasks, e \in Envs(agentMode, PlanReplies) : RunTaskDirect(id, e)

Spec == Init /\ [][Next]_vars

\* A caller that takes the dict of a newly created task (task.dict()) and
\* calls execute_task on it again and again, as the run-all loop does.
InitCalls ==
    /\ local = NoLocal
    /\ agentMode \in {"claude", "super"}
    /\ store = <<>>
    /\ \E g \in Goals : payload = Some(NewTask(1, g, "Task created."))
    /\ fs \in InitialFs
    /\ last = Op("init", "none", NoTask, Result(NoTask, fs, <<>>, <<>>, FALSE), NoEnv)

NextCalls == \E e \in Envs(agentMode, PlanReplies \cup MorePlanReplies) : Advance(e)

CallSpec == InitCalls /\ [][NextCalls]_vars

\* ------------------------------------------------------------------ file layer
\* Callers of backend/utils/file_ops.py: any sequence of resolve, read, write
\* and list calls on the path strings of RelPaths.
Contents == {"a", "b"}

\* Next to the workspace there may be a sibling directory whose name starts
\* with the name of the workspace directory.
FileInitialFs ==
    InitialFs \cup
    { [p \in FsPaths |->
        IF p = Base \/ p \in Ancestors(Base) \/ p = <<"repo", "workspace2">> THEN Dir
        ELSE IF p = <<"repo", "workspace2", "secret.txt">> THEN "secret"
        ELSE Absent] }

\* The record of one call of the file layer.
FileOp(op, name, raised, exc, target, text, names) ==
    [op |-> op, name |-> name, raised |-> raised, exc |-> exc, target |-> target,
     text |-> text, names |-> names]

InitFiles ==
    /\ local = NoLocal
    /\ store = <<>>
    /\ agentMode = "claude"
    /\ payload = None
    /\ fs \in FileInitialFs
    /\ last = FileOp("init", "", FALSE, "none", Base, "", {})

ResolvePathCall(name) ==
    /\ \E r \in {ResolvePath(name)} :
        last' = FileOp("resolve", name, r.raised, r.exc, r.target, "", {})
    /\ UNCHANGED <<local, store, agentMode, payload, fs>>

ReadFileCall(name) ==
    /\ \E r \in {ReadFile(fs, name)} :
        last' = FileOp("read", name, r.raised, r.exc, ResolvePath(name).target, r.text, {})
    /\ UNCHANGED <<local, store, agentMode, payload, fs>>

WriteFileCall(name, content) ==
    /\ \E w \in {WriteFile(fs, name, content)} :
        /\ fs' = w.fs
        /\ last' = FileOp("write", name, w.raised, w.exc, ResolvePath(name).target,
                          content, {})
    /\ UNCHANGED <<local, store, agentMode, payload>>

ListDirCall(name) ==
    /\ \E r \in {ListDir(fs, name)} :
        last' = FileOp("list", name, r.raised, r.exc, ResolvePath(name).target, "", r.names)
    /\ UNCHANGED <<local, store, agentMode, payload, fs>>

NextFiles ==
    \E name \in RelPaths :
        \/ ResolvePathCall(name)
        \/ ReadFileCall(name)
        \/ \E content \in Contents : WriteFileCall(name, content)
        \/ ListDirCall(name)

FileSpec == InitFiles /\ [][NextFiles]_vars

\* ------------------------------------------------------------------ run-all
\* run_task_all_direct (POST /tasks/{task_id}/run-all), one action per step of
\* the handler.  payload is the handler's task_payload while it runs, None
\* when no run-all request is being served.

\* task = _find_task(task_id); task_payload = task.dict()
RunAllStart(id) ==
    /\ payload = None
    /\ \E i \in {FindTask(store, id)} :
        /\ i # 0
        /\ payload' = Some(store[i])
        /\ last' = Op("run_all_start", agentMode, store[i],
                      Result(store[i], fs, <<>>, <<>>, FALSE), NoEnv)
    /\ UNCHANGED <<local, store, agentMode, fs>>

\* One turn of `while task_payload.get("status") not in ("completed",
\* "failed"): task_payload = agent.execute_task(task_payload)`.  An exception
\* of execute_task leaves the handler: the request ends with nothing returned
\* and nothing persisted.
RunAllLoop(e) ==
    /\ payload # None
    /\ payload[1].status \notin {"completed", "failed"}
    /\ Len(payload[1].logs) < MaxLogs
    /\ \E r \in {ExecuteTask(agentMode, payload[1], e.reply, e.sreply, e.llm, e.gh, fs)} :
        /\ payload' = IF r.raised THEN None ELSE Some(r.task)
        /\ fs' = r.fs
        /\ last' = Op(IF r.raised THEN "run_all" ELSE "advance", agentMode, payload[1], r, e)
    /\ UNCHANGED <<local, store, agentMode>>

\* The loop has ended: updated_task = Task(**task_payload); return
\* _update_and_save_task(updated_task).
RunAllFinish ==
    /\ payload # None
    /\ payload[1].status \in {"completed", "failed"}
    /\ \E m \in {TaskModel(payload[1])} :
        /\ store' = IF m.raised THEN store ELSE UpsertTask(store, m.task)
        /\ last' = Op("run_all", agentMode, payload[1],
                      Result(m.task, fs, <<>>, <<>>, m.raised), NoEnv)
    /\ payload' = None
    /\ UNCHANGED <<local, agentMode, fs>>

\* A store holding one newly created task; single runs and run-all requests
\* on it, one request at a time.
InitRunAll ==
    /\ local = NoLocal
    /\ agentMode \in {"claude", "super"}
    /\ \E g \in Goals : store = <<NewTask(1, g, "Task created.")>>
    /\ payload = None
    /\ fs \in InitialFs
    /\ last = Op("init", "none", NoTask, Result(NoTask, fs, <<>>, <<>>, FALSE), NoEnv)

NextRunAll ==
    \/ \E e \in Envs(agentMode, PlanReplies) : payload = None /\ RunTaskDirect(1, e)
    \/ RunAllStart(1)
    \/ \E e \in Envs(agentMode, PlanReplies \cup MorePlanReplies) : RunAllLoop(e)
    \/ RunAllFinish

RunAllSpec == InitRunAll /\ [][NextRunAll]_vars

\* ------------------------------------------------------------------ any task dict
\* ClaudeAgent.execute_task on the dict of any Task with a plan, as a caller may
\* load it from tasks.json: current_step is any small integer (Task declares
\* it int and checks no range), or None as a dict returned by ClaudeAgent
\* holds it.
StepIndices == {None} \cup {Some(i) : i \in -1..3}

Statuses == {"queued", "in_progress", "completed", "failed"}

StoredPlans ==
    { << ModelStep(<<"list", "files">>) >>,
      << ModelStep(<<"Create", "file", "hello.py">>), ModelStep(<<"write", "tests">>) >> }

InitInputs ==
    /\ local = NoLocal
    /\ agentMode = "claude"
    /\ store = <<>>
    /\ \E plan \in StoredPlans, cs \in StepIndices, st \in Statuses :
        payload = Some([NewTask(1, <<"build", "app">>, "Task created.")
                            EXCEPT !.plan = plan, !.current_step = cs, !.status = st])
    /\ fs \in InitialFs
    /\ last = Op("init", "none", NoTask, Result(NoTask, fs, <<>>, <<>>, FALSE), NoEnv)

NextInputs == \E e \in Envs(agentMode, PlanReplies) : Advance(e)

InputSpec == InitInputs /\ [][NextInputs]_vars

\* ------------------------------------------------------------------ properties
\* The call recorded in `last` is an execute_task call of ClaudeAgent made by
\* a caller that holds the task dict.
ClaudeAdvance == last.op = "advance" /\ last.agent = "claude"

\* The task before the recorded call is in_progress with its current step in
\* range.
PreInRange ==
    /\ last.pre.status = "in_progress"
    /\ last.pre.current_step # None
    /\ last.pre.current_step[1] >= 0
    /\ last.pre.current_step[1] < Len(last.pre.plan)

\* s is a prefix of t.
IsPrefix(s, t) == Len(s) <= Len(t) /\ SubSeq(t, 1, Len(s)) = s

\* C1: in every state reached from a newly created task by execute_task calls
\* of ClaudeAgent, status in_progress implies that current_step is an integer
\* with 0 <= current_step < len(plan).
C1_InProgressInRange ==
    (payload # None /\ agentMode = "claude" /\ payload[1].status = "in_progress")
        => /\ payload[1].current_step # None
           /\ payload[1].current_step[1] >= 0
           /\ payload[1].current_step[1] < Len(payload[1].plan)

\* C1's case: a step has been dispatched and the task is still in_progress.
C1_Witness ==
    /\ ClaudeAdvance
    /\ last.dispatched = <<0>>
    /\ payload[1].status = "in_progress"
    /\ payload[1].current_step = Some(1)

\* C2: the first execute_task call on a queued task with an empty plan only
\* plans: it returns a non-empty plan whose steps are all pending, status
\* in_progress and current_step 0, and no step is dispatched in that call.
C2_FirstCallOnlyPlans ==
    (ClaudeAdvance /\ last.pre.status = "queued" /\ last.pre.plan = <<>>)
        => /\ ~last.raised
           /\ last.post.plan # <<>>
           /\ \A k \in 1..Len(last.post.plan) : last.post.plan[k].status = "pending"
           /\ last.post.status = "in_progress"
           /\ last.post.current_step = Some(0)
           /\ last.dispatched = <<>>
           /\ last.calls = <<>>

\* C2's case: a queued task without a plan was planned from a parsed reply.
C2_Witness ==
    /\ ClaudeAdvance
    /\ last.pre.status = "queued"
    /\ last.pre.plan = <<>>
    /\ Len(last.post.plan) = 4

\* C3: each execute_task call on an in_progress task with current_step = i in
\* range invokes the dispatcher exactly once, for plan[i] only, marks plan[i]
\* completed and, when i is not the last index, sets current_step to i + 1 and
\* keeps status in_progress.
C3_OneStepPerCall ==
    (ClaudeAdvance /\ PreInRange)
        => LET i == last.pre.current_step[1]
           IN  /\ last.dispatched = <<i>>
               /\ ~last.raised
               /\ last.post.plan[i + 1].status = "completed"
               /\ \A k \in 1..Len(last.pre.plan) :
                    k # i + 1 => last.post.plan[k] = last.pre.plan[k]
               /\ (i + 1 < Len(last.pre.plan))
                    => /\ last.post.current_step = Some(i + 1)
                       /\ last.post.status = "in_progress"

\* C4: for every in_progress task with current_step = len(plan) - 1, one
\* execute_task call yields status completed and current_step none.
C4_LastStepCompletes ==
    (ClaudeAdvance /\ PreInRange /\ last.pre.current_step[1] = Len(last.pre.plan) - 1)
        => /\ ~last.raised
           /\ last.post.status = "completed"
           /\ last.post.current_step = None

\* C5: execute_task is idempotent on completed tasks: a further call returns
\* the same plan, status completed and the same current_step, and the previous
\* task logs are a prefix of the new ones.
C5_IdempotentOnCompleted ==
    (last.op = "advance" /\ last.pre.status = "completed")
        => /\ ~last.raised
           /\ last.post.plan = last.pre.plan
           /\ last.post.status = "completed"
           /\ last.post.current_step = last.pre.current_step
           /\ IsPrefix(last.pre.logs, last.post.logs)

\* C6: over runs of a stored task (each result persisted and reloaded between
\* calls) a step is never dispatched a second time: two runs of the same task
\* in a row never hand the same plan index to the dispatcher.
C6_NeverDispatchedTwice ==
    [][~(/\ last.op = "run"
         /\ last'.op = "run"
         /\ last'.pre.id = last.pre.id
         /\ last.dispatched # <<>>
         /\ last'.dispatched = last.dispatched)]_vars

\* The fields of a step other than those listed are the same in a and b.
SameButFor(a, b, fields) ==
    \A fld \in DOMAIN a : fld \notin fields => a[fld] = b[fld]

\* Every step of the recorded call's plan keeps its place, and changes only in
\* the listed fields.
PlanKeptButFor(fields) ==
    /\ Len(last.post.plan) = Len(last.pre.plan)
    /\ \A k \in 1..Len(last.pre.plan) :
        /\ DOMAIN last.post.plan[k] = DOMAIN last.pre.plan[k]
        /\ SameButFor(last.pre.plan[k], last.post.plan[k], fields)

\* C7, as stated: once a plan exists no execute_task call changes its length,
\* the order of its steps or a description; within a step only status,
\* result, logs and error change.
C7_OnlyFourFieldsChange ==
    (ClaudeAdvance /\ last.pre.plan # <<>>)
        => PlanKeptButFor({"status", "result", "logs", "error"})

\* C7, amended: once a plan exists no execute_task call changes its length,
\* the order of its steps or a description; within a step only status,
\* result, logs, error, metadata and the step's updated_at stamp change.
C7_PlanShapeImmutable ==
    (ClaudeAdvance /\ last.pre.plan # <<>>)
        => PlanKeptButFor({"status", "result", "logs", "error", "metadata",
                           "updated_at"})

\* C7's case: a dispatch wrote the metadata of its step.
C7_Witness ==
    /\ ClaudeAdvance
    /\ last.dispatched # <<>>
    /\ ~last.raised
    /\ last.post.plan[last.dispatched[1] + 1].metadata
            # last.pre.plan[last.dispatched[1] + 1].metadata

\* C8: in every reachable task state current_step is none if and only if the
\* status is completed or the plan is empty.
C8_NoneIffCompletedOrEmpty ==
    payload # None
        => (payload[1].current_step = None
                <=> (payload[1].status = "completed" \/ payload[1].plan = <<>>))

\* C9: every task-creation operation produces a task with status queued, an
\* empty plan and current_step none.
C9_CreatedQueuedEmptyNone ==
    last.op = "create"
        => /\ ~last.raised
           /\ last.post.status = "queued"
           /\ last.post.plan = <<>>
           /\ last.post.current_step = None

\* C10: the plan always makes forward progress: whatever the description and
\* whatever the completion service, the repository client and the workspace
\* do, an execute_task call on an in_progress task returns normally with the
\* current step completed and current_step advanced, or the task completed.
C10_ForwardProgress ==
    (ClaudeAdvance /\ PreInRange)
        => LET i == last.pre.current_step[1]
           IN  /\ ~last.raised
               /\ last.post.plan[i + 1].status = "completed"
               /\ \A k \in 1..Len(last.post.plan) :
                    last.pre.plan[k].status = "completed"
                        => last.post.plan[k].status = "completed"
               /\ \/ last.post.current_step = Some(i + 1)
                  \/ last.post.status = "completed"

\* target is the workspace root or lies below it.
IsInside(target) ==
    Len(target) >= Len(Base) /\ SubSeq(target, 1, Len(Base)) = Base

\* C11: _resolve_path succeeds exactly when the canonical target is the
\* workspace root or a descendant of it and raises the containment error
\* otherwise, so that no read returns, no list returns and no write changes
\* anything outside the root.
C11_ResolveContainsExactly ==
    /\ last.op \in {"resolve", "read", "write", "list"}
        => (last.exc # "ValueError" <=> IsInside(last.target))
    /\ (last.op \in {"read", "list"} /\ ~last.raised) => IsInside(last.target)
    /\ \A p \in DOMAIN fs : fs[p] \in Contents => IsInside(p)

\* The step the recorded ClaudeAgent call handed to the dispatcher.
DispatchedStep == last.pre.plan[last.dispatched[1] + 1]

\* The recorded call dispatched a create-file or read-file step that reached
\* write_file / read_file with a path _resolve_path rejects.
SandboxViolation ==
    /\ ClaudeAdvance
    /\ last.dispatched # <<>>
    /\ \E b \in {Branch(LowerText(DispatchedStep.description))} :
       \E filename \in {ExtractFilename(DispatchedStep.description)} :
            /\ b \in {"create_file", "read_file"}
            /\ b = "create_file" => Truthy(last.env.llm)
            /\ filename # None
            /\ ResolvePath(filename[1]).raised

\* C12: a sandbox violation during a step is raised to the caller of
\* execute_task; it is not absorbed into the step's result, error or logs
\* (the call does not return a task whose step carries the failure).
C12_SandboxViolationRaised ==
    SandboxViolation => last.raised

\* The recorded call found no plan and generated one (execute_task of either
\* agent calls _create_plan when the task has no plan).
PlanGenerated == last.op = "advance" /\ last.pre.plan = <<>>

\* C13: for every goal and every behaviour of the completion service, plan
\* generation returns without raising, and the plan is a non-empty sequence
\* of steps whose descriptions are all non-empty strings.
C13_PlanNonEmptyStrings ==
    PlanGenerated =>
        /\ ~last.raised
        /\ last.post.plan # <<>>
        /\ \A i \in 1..Len(last.post.plan) : last.post.plan[i].description # <<>>

\* The completion call of the recorded plan generation failed (None), returned
\* no usable text, or returned a text that parses to zero steps.
FallbackForced ==
    \/ last.env.reply = None
    \/ last.env.reply = Some(<<>>)
    \/ ParseSteps(last.env.reply[1], <<>>) = <<>>

\* The descriptions of the steps of a plan, in order.
Descriptions(plan) == [i \in 1..Len(plan) |-> plan[i].description]

\* C14: whenever the completion call fails, returns no usable text or parses
\* to zero steps, ClaudeAgent's plan is the fixed three steps "Analyze the goal
\* and clarify requirements for: G", "Design and implement a solution for: G",
\* "Test, review, and refine the solution for: G", in this order, where G is
\* the trimmed goal, or "the requested task" when the trimmed goal is empty.
C14_FallbackIsFixedPlan ==
    (ClaudeAdvance /\ PlanGenerated /\ FallbackForced) =>
        \E g \in {IF Strip(last.pre.goal) = <<>> THEN <<"the requested task">>
                  ELSE Strip(last.pre.goal)} :
            Descriptions(last.post.plan) =
                << <<"Analyze the goal and clarify requirements for:">> \o g,
                   <<"Design and implement a solution for:">> \o g,
                   <<"Test, review, and refine the solution for:">> \o g >>

\* The fallback was forced on an empty goal by a text that parses to no step,
\* and three steps came back.
C14_Witness ==
    /\ ClaudeAdvance /\ PlanGenerated
    /\ last.env.reply \notin {None, Some(<<>>)}
    /\ FallbackForced
    /\ Strip(last.pre.goal) = <<>>
    /\ Len(last.post.plan) = 3
    /\ last.post.plan[3].description[Len(last.post.plan[3].description)] = "the requested task"

\* C15: every task dict an execute_task call returns converts to a Task
\* (Task(**dict) does not raise), and that Task survives the round trip
\* task.dict() -> Task(**dict), which is also what save_tasks followed by
\* load_tasks does to each stored task, equal in all fields.
C15_RoundTrip ==
    (last.op = "advance" /\ ~last.raised) =>
        \E m \in {TaskModel(last.post)} :
            /\ ~m.raised
            /\ TaskModel(m.task) = [raised |-> FALSE, task |-> m.task]

\* C16: a run-all request ends by returning the task, and the task it returns
\* and persists has status completed or failed.
C16_RunAllEndsCompletedOrFailed ==
    last.op = "run_all" =>
        /\ ~last.raised
        /\ last.post.status \in {"completed", "failed"}
        /\ \E i \in {FindTask(store, last.post.id)} :
            i # 0 /\ store[i] = last.post

\* s is a strict prefix of t.
IsStrictPrefix(s, t) == Len(s) < Len(t) /\ SubSeq(t, 1, Len(s)) = s

\* C17: after every execute_task call of ClaudeAgent the task's previous logs
\* are a strict prefix of its logs (append-only, and at least one line per
\* call), and updated_at carries the time of the call.
C17_LogsGrowAndStampRefreshed ==
    ClaudeAdvance =>
        /\ IsStrictPrefix(last.pre.logs, last.post.logs)
        /\ last.post.updated_at = Now

\* The recorded call was given a non-empty plan and a current_step outside it.
PreOutOfRange ==
    /\ ClaudeAdvance
    /\ last.pre.plan # <<>>
    /\ last.pre.current_step # None
    /\ \/ last.pre.current_step[1] < 0
       \/ last.pre.current_step[1] >= Len(last.pre.plan)

\* C18: execute_task on a task with a non-empty plan whose current_step is
\* negative or >= len(plan) dispatches no step, leaves the plan as it is, sets
\* status completed and current_step none, and appends the anomaly line to
\* the task logs.
C18_OutOfRangeForcesCompleted ==
    PreOutOfRange =>
        /\ ~last.raised
        /\ last.dispatched = <<>>
        /\ last.calls = <<>>
        /\ last.post.plan = last.pre.plan
        /\ last.post.status = "completed"
        /\ last.post.current_step = None
        /\ last.post.logs = Append(last.pre.logs,
                "current_step index out of range; forcing task to completed.")

\* An in_progress task with a negative index was forced to completed.
C18_Witness ==
    /\ PreOutOfRange
    /\ last.pre.status = "in_progress"
    /\ last.pre.current_step[1] < 0
    /\ last.post.status = "completed"
    /\ last.post.current_step = None

\* The action of the dispatched step failed: content synthesis unavailable,
\* filename or repository identifier unparsable, local file missing, or an
\* error of the repository client.
ActionFailed ==
    /\ ClaudeAdvance
    /\ last.dispatched # <<>>
    /\ \E d \in {LowerText(DispatchedStep.description)} :
       \E b \in {Branch(d)} :
       \E filename \in {ExtractFilename(DispatchedStep.description)} :
       \E parsed \in {RepoMatch(d) # None /\ FileMatch(d) # None} :
            \/ b \in {"github_read", "github_update"} /\ ~parsed
            \/ b = "github_update" /\ parsed /\ ~Truthy(last.env.llm)
            \/ b = "github_read" /\ parsed /\ last.env.gh # "ok"
            \/ b = "github_update" /\ parsed /\ Truthy(last.env.llm)
                    /\ last.env.gh \notin {"ok", "missing"}
            \/ b = "create_file" /\ ~Truthy(last.env.llm)
            \/ b = "create_file" /\ Truthy(last.env.llm) /\ filename = None
            \/ b = "read_file" /\ filename = None
            \/ b = "read_file" /\ filename # None /\ ReadFile(fs, filename[1]).raised

\* C19: whenever the action of a step fails, the dispatch returns, the step's
\* error field is set (not none) and the step is marked completed.
C19_FailureSetsError ==
    ActionFailed =>
        /\ ~last.raised
        /\ last.post.plan[last.dispatched[1] + 1].error # None
        /\ last.post.plan[last.dispatched[1] + 1].status = "completed"

\* C20: every dispatch that returns, whatever branch it took and whether its
\* action succeeded or failed, has appended at least one line to the step's
\* logs and at least one line to the task's logs.
C20_EveryBranchLogsTwice ==
    (ClaudeAdvance /\ last.dispatched # <<>> /\ ~last.raised) =>
        /\ IsStrictPrefix(DispatchedStep.logs,
                          last.post.plan[last.dispatched[1] + 1].logs)
        /\ IsStrictPrefix(last.pre.logs, last.post.logs)

\* The dispatched step as the recorded call returned it.
PostStep == last.post.plan[last.dispatched[1] + 1]

\* The lines the dispatch appended to the logs of its step.
NewStepLogs == SubSeq(PostStep.logs, Len(DispatchedStep.logs) + 1, Len(PostStep.logs))

\* The keyword groups of the dispatcher, on a lowered description.
RemoteGroup(d) ==
    /\ InText("github", d)
    /\ \/ InText("read", d) \/ InText("commit", d) \/ InText("update", d)
       \/ InText2("create", "pr", d) \/ InText2("pull", "request", d)
CreateGroup(d) == InText("create", d) /\ InText("file", d)
ReadGroup(d) == InText("read", d) /\ InText("file", d)
ListGroup(d) == InText("list", d) \/ InText("explore", d)

\* What a dispatch leaves behind when the fallback branch handled the step,
\* a local file branch, or the listing branch.
FallbackTaken ==
    NewStepLogs \in { <<"Step guidance">>, <<"Step completed (no specific actions)">> }
LocalCreateTaken ==
    NewStepLogs \in { <<"Created file">>, <<"Warning: Could not extract filename">>,
                      <<"Warning: File generation skipped">> }
        \/ (NewStepLogs = <<"Error">> /\ PostStep.error[1] = "Failed to create file:")
LocalReadTaken ==
    NewStepLogs \in { <<"Successfully read">>, <<"Warning: Filename not found in description">> }
        \/ (NewStepLogs = <<"Error">> /\ PostStep.error[1] = "Failed to read file:")
ListTaken ==
    NewStepLogs = <<"Listed workspace">>
        \/ (NewStepLogs = <<"Error">> /\ PostStep.error[1] = "Failed to list directory:")

\* C21: a dispatch that returns has taken the first branch whose keyword group
\* matches the description, in the order remote repository, create file, read
\* file, listing, and no later one; the fallback branch is taken exactly when
\* no keyword group matches.
C21_FirstMatchWins ==
    (ClaudeAdvance /\ last.dispatched # <<>> /\ ~last.raised) =>
        \E d \in {LowerText(DispatchedStep.description)} :
            /\ RemoteGroup(d) => ~(LocalCreateTaken \/ LocalReadTaken \/ ListTaken \/ FallbackTaken)
            /\ LocalCreateTaken <=> (~RemoteGroup(d) /\ CreateGroup(d))
            /\ LocalReadTaken <=> (~RemoteGroup(d) /\ ~CreateGroup(d) /\ ReadGroup(d))
            /\ ListTaken <=> (~RemoteGroup(d) /\ ~CreateGroup(d) /\ ~ReadGroup(d) /\ ListGroup(d))
            /\ FallbackTaken <=> ~(RemoteGroup(d) \/ CreateGroup(d) \/ ReadGroup(d) \/ ListGroup(d))

\* The remote-repository keyword group as the claim states it: "repo" together
\* with read, commit/update, or create pr/pull request.
RepoGroup(d) ==
    /\ InText("repo", d)
    /\ \/ InText("read", d) \/ InText("commit", d) \/ InText("update", d)
       \/ InText2("create", "pr", d) \/ InText2("pull", "request", d)

\* C22: a step whose description holds "repo" together with read,
\* commit/update or create pr/pull request is handled by the remote-repository
\* branch: no local file branch, no listing and no fallback acts on it.
C22_RepoKeywordRoutesRemote ==
    (ClaudeAdvance /\ last.dispatched # <<>> /\ ~last.raised
        /\ RepoGroup(LowerText(DispatchedStep.description)))
        => ~(LocalCreateTaken \/ LocalReadTaken \/ ListTaken \/ FallbackTaken)

\* The repository identifier and the file path of a description as it is
\* written (no lowering): the word after "repo", the word after "file".
WrittenRepo(desc) ==
    LET P(i) == EndsWithRepo(Lower(desc[i])) /\ i + 1 <= Len(desc)
    IN  Let(FirstIndex(desc, P), LAMBDA i0 : IF i0 = 0 THEN None ELSE Some(desc[i0 + 1]))
WrittenFile(desc) ==
    LET P(i) == EndsWithFile(desc[i]) /\ i + 1 <= Len(desc)
    IN  Let(FirstIndex(desc, P), LAMBDA i0 : IF i0 = 0 THEN None ELSE Some(desc[i0 + 1]))

\* The recorded call dispatched a remote read step.
RemoteReadStep ==
    /\ ClaudeAdvance
    /\ last.dispatched # <<>>
    /\ Branch(LowerText(DispatchedStep.description)) = "github_read"

\* C23: for a remote read step whose description holds a repository
\* identifier and a file path, the repository client's read is called exactly
\* once, with the identifier and the path exactly as the description writes
\* them; when either is missing the client is not called and the result is a
\* descriptive string.
C23_RemoteReadAsWritten ==
    RemoteReadStep =>
        \E repo \in {WrittenRepo(DispatchedStep.description)} :
        \E path \in {WrittenFile(DispatchedStep.description)} :
            IF repo # None /\ path # None
            THEN last.calls = << <<"read_file", repo[1], path[1]>> >>
            ELSE /\ last.calls = <<>>
                 /\ ~last.raised
                 /\ PostStep.result # None

\* The recorded call dispatched a remote commit/update step.
RemoteUpdateStep ==
    /\ ClaudeAdvance
    /\ last.dispatched # <<>>
    /\ Branch(LowerText(DispatchedStep.description)) = "github_update"

\* C24: for a remote commit/update step whose description holds a repository
\* and a file path, the content is synthesized and the client's update is
\* called exactly once with (repo, path, content, "Update <path>"), repo and
\* path being those of the description, and the step result is what the
\* client returned; when the synthesis fails the client is not called and the
\* result is a descriptive failure string.
C24_RemoteUpdateOnce ==
    RemoteUpdateStep =>
        \E repo \in {WrittenRepo(DispatchedStep.description)} :
        \E path \in {WrittenFile(DispatchedStep.description)} :
            (repo # None /\ path # None) =>
                IF Truthy(last.env.llm)
                THEN /\ last.calls = << <<"update_file", repo[1], path[1], last.env.llm[1],
                                          "Update", path[1]>> >>
                     /\ ~last.raised =>
                            PostStep.result =
                                Some(GhUpdateFile(repo[1], path[1], last.env.llm[1],
                                                  <<"Update", path[1]>>, last.env.gh).value)
                ELSE /\ last.calls = <<>>
                     /\ ~last.raised
                     /\ PostStep.result = Some("Failed to generate content for commit")

\* The recorded call dispatched a local create-file step.
CreateFileStep ==
    /\ ClaudeAdvance
    /\ last.dispatched # <<>>
    /\ Branch(LowerText(DispatchedStep.description)) = "create_file"

NotFoundStep ==
    /\ ClaudeAdvance
    /\ last.dispatched # <<>>
    /\ \E b \in {Branch(LowerText(DispatchedStep.description))} :
       \E filename \in {ExtractFilename(DispatchedStep.description)} :
            \/ /\ b = "read_file"
               /\ filename # None
               /\ ReadFile(last.fsBefore, filename[1]).exc = "FileNotFoundError"
            \/ /\ b = "list"
               /\ ListDir(last.fsBefore, "").exc = "FileNotFoundError"

\* C26: a missing file in a read-file step, or a missing directory in a
\* listing step, is caught by the dispatcher: the call does not raise, the
\* step's error is set, a line is appended to the step's logs, the step is
\* completed and the task moves to the next step (or completes after the last).
C26_NotFoundIsCaught ==
    NotFoundStep =>
        /\ ~last.raised
        /\ PostStep.error # None
        /\ NewStepLogs # <<>>
        /\ PostStep.status = "completed"
        /\ IF last.dispatched[1] + 1 < Len(last.pre.plan)
           THEN last.post.current_step = Some(last.dispatched[1] + 1)
                /\ last.post.status = "in_progress"
           ELSE last.post.current_step = None /\ last.post.status = "completed"

\* A read-file step found its file missing and recorded the error.
C26_Witness ==
    /\ NotFoundStep
    /\ Branch(LowerText(DispatchedStep.description)) = "read_file"
    /\ PostStep.error = <<"Failed to read file:", "FileNotFoundError">>
    /\ last.post.current_step # last.pre.current_step

\* C27: list_dir fails with a not-found error when the path is absent, and
\* with a different, not-a-directory error when the path exists but is not a
\* directory.
C27_ListDistinguishesFailures ==
    (last.op = "list" /\ IsInside(last.target)) =>
        /\ At(fs, last.target) = Absent => last.exc = "FileNotFoundError"
        /\ IsFile(fs, last.target) =>
                (last.raised /\ last.exc \notin {"none", "FileNotFoundError"})

\* What read_file returns for a path: Some(text), or None when it raises.
ReadText(f, name) ==
    Let(ReadFile(f, name), LAMBDA r : IF r.raised THEN None ELSE Some(r.text))

\* C28: a successful write_file(p, text) makes read_file(p) return exactly
\* text, whatever directories had to be created; every other call leaves what
\* read_file returns for p as it was, so a read returns the most recent
\* successful write; and read_file of a workspace path that holds nothing
\* raises FileNotFoundError.
C28_WriteReadRoundTrip ==
    /\ [](\A n \in RelPaths :
            (~ResolvePath(n).raised /\ At(fs, ResolvePath(n).target) = Absent)
                => ReadFile(fs, n).exc = "FileNotFoundError")
    /\ [][\A n \in RelPaths :
            IF last'.op = "write" /\ ~last'.raised
                /\ last'.target = ResolvePath(n).target
            THEN ReadText(fs', n) = Some(last'.text)
            ELSE ReadText(fs', n) = ReadText(fs, n)]_vars

\* A file below two directories that did not exist was written, and read
\* back with the text of the write.
C28_Witness ==
    /\ last.op = "read"
    /\ last.name = "sub/dir/file.txt"
    /\ ~last.raised
    /\ last.text \in Contents
    /\ fs[Base \o <<"sub">>] = Dir

\* C29: every call the dispatcher makes to the repository client returns: for
\* any error of the transport or of the API, and without a token, the client
\* hands back a string (which becomes the step's result) and no exception
\* reaches the dispatcher.
C29_ClientFailsSoft ==
    (ClaudeAdvance /\ last.calls # <<>>) =>
        /\ ~last.raised
        /\ PostStep.result # None

\* C30: when a run of a task throws, in the agent or in the conversion of
\* what the agent returned back to a Task, the store is left as it was: the
\* task's plan, status, current_step and logs are those of before the call.
C30_FailedRunStoresNothing ==
    [][(last'.op = "run" /\ last'.raised) => store' = store]_vars

\* A run whose agent completed the last step of a stored task and returned
\* it completed, while the conversion of that result to a Task threw: the
\* store still holds the task as it was handed to the agent.
C30_Witness ==
    /\ last.op = "run"
    /\ last.raised
    /\ last.dispatched # <<>>
    /\ last.post.status = "completed"
    /\ last.post # last.pre
    /\ \E i \in 1..Len(store) : store[i] = last.pre /\ store[i].status = "in_progress"

\* The steps of task t that are completed are exactly those before its
\* current step, and all of them once the task is completed.
CompletedPrefix(t) ==
    \A j \in 1..Len(t.plan) :
        (t.plan[j].status = "completed") <=>
            \/ t.status = "completed"
            \/ t.current_step # None /\ j - 1 < t.current_step[1]

\* C33: in every state a caller reaches from a newly created task by
\* execute_task calls, under either agent, step j of the plan is completed
\* exactly when j < current_step, and every step is when the task is
\* completed.
C33_CompletedStepsArePrefix ==
    payload # None => CompletedPrefix(payload[1])

\* A task in the middle of its plan: the first step completed, the current
\* one pending.
C33_Witness ==
    /\ payload # None
    /\ payload[1].status = "in_progress"
    /\ payload[1].current_step = Some(1)
    /\ Len(payload[1].plan) >= 3
    /\ payload[1].plan[1].status = "completed"
    /\ payload[1].plan[2].status = "pending"
    /\ last.op = "advance"

\* The moves of a task's status that keep the order queued, in_progress,
\* completed.
StatusMoves ==
    { <<"queued", "queued">>, <<"queued", "in_progress">>, <<"queued", "completed">>,
      <<"in_progress", "in_progress">>, <<"in_progress", "completed">>,
      <<"completed", "completed">> }

\* C34: an execute_task call moves the status of the task only forward along
\* queued, in_progress, completed: a completed task stays completed, and no
\* call sets the status to failed.
C34_StatusMonotonic ==
    [][last'.op = "advance" =>
            <<last'.pre.status, last'.post.status>> \in StatusMoves]_vars

\* The files that the recorded call created or whose text it changed.
FilesWritten ==
    {p \in DOMAIN fs : IsFile(fs, p) /\ fs[p] # last.fsBefore[p]}

\* C39: an execute_task call of ClaudeAgent that plans, or whose step goes to
\* the remote-repository, read-file, listing or fallback branch, leaves the
\* file system as it found it; and no call writes more than one file.
C39_OnlyCreateFileWrites ==
    ClaudeAdvance =>
        /\ Cardinality(FilesWritten) <= 1
        /\ \/ last.dispatched = <<>>
           \/ \E d \in {LowerText(DispatchedStep.description)} :
                    RemoteGroup(d) \/ ~CreateGroup(d)
           => fs = last.fsBefore

\* A listing step left the file system as it found it, in a task whose
\* create-file step had written its file.
C39_Witness ==
    /\ ClaudeAdvance
    /\ last.dispatched # <<>>
    /\ NewStepLogs = <<"Listed workspace">>
    /\ fs = last.fsBefore
    /\ \E j \in 1..Len(last.post.plan) : last.post.plan[j].logs = <<"Created file">>
    /\ ~ReadFile(fs, "hello.py").raised

\* ------------------------------------------------------------------ the store alone
\* The functions that write tasks.json, called one after another on stores
\* of up to MaxStored tasks: the two creation handlers and upsert_task with
\* any Task a caller may hand it.
MaxStored == 3

\* The record of one call on the store.
StoreOp(op, task, raised) == [op |-> op, task |-> task, before |-> store, raised |-> raised]

\* create_task (POST /session/{session_id}/tasks): create_task_direct with
\* another first log line.
CreateTask(goal) ==
    /\ Len(store) < MaxStored
    /\ \E m \in {TaskModel(NewTask(NextId(store), goal, "[session] Task created."))} :
        /\ store' = IF m.raised THEN store ELSE Append(store, m.task)
        /\ last' = StoreOp("create_session", m.task, m.raised)
    /\ UNCHANGED <<local, agentMode, payload, fs>>

\* The Task objects handed to upsert_task: a task of any id, as an agent
\* returns it.
UpsertInputs ==
    { [NewTask(id, <<"build", "app">>, "Task created.") EXCEPT !.status = s] :
        id \in 1..(MaxStored + 1), s \in {"in_progress", "completed"} }

\* upsert_task(task)
UpsertTaskCall(task) ==
    /\ \E new \in {UpsertTask(store, task)} :
        /\ Len(new) <= MaxStored
        /\ store' = new
    /\ last' = StoreOp("upsert", task, FALSE)
    /\ UNCHANGED <<local, agentMode, payload, fs>>

InitStore ==
    /\ local = NoLocal
    /\ agentMode = "claude"
    /\ store \in { <<>>, <<NewTask(1, <<"build", "app">>, "Task created.")>> }
    /\ payload = None
    /\ fs \in InitialFs
    /\ last = StoreOp("init", NoTask, FALSE)

NextStore ==
    \/ \E g \in {<<>>, <<"build", "app">>} : CreateTaskDirect(g)
    \/ \E g \in {<<>>, <<"build", "app">>} : CreateTask(g)
    \/ \E t \in UpsertInputs : UpsertTaskCall(t)

StoreSpec == InitStore /\ [][NextStore]_vars

\* C32: whatever creations (and upserts) have been made, no two stored tasks
\* have the same id.
C32_TaskIdsUnique ==
    \A i, j \in 1..Len(store) : i # j => store[i].id # store[j].id

\* A creation on a store whose ids have a gap: the new task took the id after
\* the largest one.
C32_Witness ==
    /\ last.op \in {"create", "create_session"}
    /\ ~last.raised
    /\ Len(store) = 3
    /\ store[1].id = 1
    /\ store[2].id = 3
    /\ store[3].id = 4

\* C37: upsert_task(t) leaves every stored task of another id as it was and
\* where it was; a stored task of t's id is replaced in place, otherwise t is
\* appended; afterwards exactly one stored task has t's id, and it is t.
C37_UpsertChangesOneEntry ==
    last.op = "upsert" =>
        \E b \in {last.before} : \E t \in {last.task} :
            /\ IF \E i \in 1..Len(b) : b[i].id = t.id
               THEN /\ Len(store) = Len(b)
                    /\ \A i \in 1..Len(b) : store[i] = IF b[i].id = t.id THEN t ELSE b[i]
               ELSE store = Append(b, t)
            /\ Cardinality({i \in 1..Len(store) : store[i].id = t.id}) = 1
            /\ \A i \in 1..Len(store) : store[i].id = t.id => store[i] = t

\* An upsert replaced the first of three stored tasks in place.
C37_Witness ==
    /\ last.op = "upsert"
    /\ Len(last.before) = 3
    /\ last.before[1].id = last.task.id
    /\ last.before[1] # last.task
    /\ store[1] = last.task
    /\ store[3] = last.before[3]

\* ------------------------------------------------------------------ worker and requests
\* run_worker_loop (backend/worker.py), a process of its own, next to the
\* HTTP handlers that create and run tasks.  Each access to tasks.json
\* (load_tasks, save_tasks) is one step; execute_task with the conversion of
\* its result is one step.  local.w holds the worker's variables, local.r
\* those of the request being served.

\* The completion texts of this part: none, or a plan of two steps.
WorkerReplies ==
    { None,
      Some(<< Line("raw", <<"Create", "file", "hello.py">>, <<>>),
              Line("raw", <<"list", "files">>, <<>>) >>) }

\* The services answer whenever they are called: the completion service with
\* a plan or with a text for the step (the repository client is not called by
\* these plans).
WorkerEnvs == {Env(r, None, Some("print('hi')"), "ok") : r \in WorkerReplies}

\* A faulty selection that takes up a queued task before it continues one in
\* progress.
PickTargetQueuedFirst(tasks) ==
    LET InProgress(i) == tasks[i].status = "in_progress"
        Queued(i) == tasks[i].status = "queued"
    IN  Let(<<FirstIndex(tasks, InProgress), FirstIndex(tasks, Queued)>>, LAMBDA ix :
            IF ix[2] # 0 THEN Some(tasks[ix[2]])
            ELSE IF ix[1] # 0 THEN Some(tasks[ix[1]])
            ELSE None)

\* lines 23-36: the first in_progress task of the list, else the first queued
\* one, else None.
PickTarget(tasks) ==
    LET InProgress(i) == tasks[i].status = "in_progress"
        Queued(i) == tasks[i].status = "queued"
    IN  Let(<<FirstIndex(tasks, InProgress), FirstIndex(tasks, Queued)>>, LAMBDA ix :
            IF ix[1] # 0 THEN Some(tasks[ix[1]])
            ELSE IF ix[2] # 0 THEN Some(tasks[ix[2]])
            ELSE None)

\* The record of one step of a caller: the task it worked on and, for the
\* steps that choose a task or write tasks.json, the store before the step.
CallerOp(op, proc, task, raised) ==
    [op |-> op, proc |-> proc, task |-> task, raised |-> raised,
     before |-> IF op \in {"pick", "save", "create_save"} THEN store ELSE <<>>]

\* lines 19-38: tasks = load_tasks(); choose target_task; sleep when there is
\* none.
WorkerPick ==
    /\ local.w.pc = "idle"
    /\ \E target \in {PickTarget(store)} :
        IF target = None
        THEN /\ local' = [local EXCEPT !.w = AtRest]
             /\ last' = CallerOp("sleep", "w", NoTask, FALSE)
        ELSE /\ local' = [local EXCEPT !.w = Caller("execute", target[1], NoTask, <<>>)]
             /\ last' = CallerOp("pick", "w", target[1], FALSE)
    /\ UNCHANGED <<store, agentMode, payload, fs>>

\* A run_task_direct that refuses a task the worker has loaded and not yet
\* stored.
RunLoadUnlessTaken(id) ==
    /\ local.r.pc = "idle"
    /\ ~(local.w.pc # "idle" /\ local.w.task.id = id)
    /\ \E i \in {FindTask(store, id)} :
        /\ i # 0
        /\ local' = [local EXCEPT !.r = Caller("execute", store[i], NoTask, <<>>)]
        /\ last' = CallerOp("find", "r", store[i], FALSE)
    /\ UNCHANGED <<store, agentMode, payload, fs>>

\* task = _find_task(task_id) of run_task_direct.
RunLoad(id) ==
    /\ local.r.pc = "idle"
    /\ \E i \in {FindTask(store, id)} :
        /\ i # 0
        /\ local' = [local EXCEPT !.r = Caller("execute", store[i], NoTask, <<>>)]
        /\ last' = CallerOp("find", "r", store[i], FALSE)
    /\ UNCHANGED <<store, agentMode, payload, fs>>

\* updated = agent.execute_task(task.dict()); updated_task = Task(**updated)
\* (worker.py:42-49 with ClaudeAgent, main.py:659-661 with the agent of
\* BUILDER_AGENT).  An exception ends the iteration of the worker (line 63)
\* or the request.
Execute(p, e) ==
    /\ local[p].pc = "execute"
    /\ \E mode \in {IF p = "w" THEN "claude" ELSE agentMode} :
       \E r \in {ExecuteTask(mode, local[p].task, e.reply, e.sreply, e.llm, e.gh, fs)} :
       \E m \in {TaskModel(r.task)} :
       \E failed \in {r.raised \/ m.raised} :
            /\ fs' = r.fs
            /\ local' = [local EXCEPT ![p] =
                            IF failed THEN AtRest
                            ELSE Caller("upsert", local[p].task, m.task, <<>>)]
            /\ last' = CallerOp("execute", p, r.task, failed)
    /\ UNCHANGED <<store, agentMode, payload>>

\* upsert_task, line 29: tasks = load_tasks()
UpsertLoad(p) ==
    /\ local[p].pc = "upsert"
    /\ local' = [local EXCEPT ![p].pc = "save", ![p].tasks = store]
    /\ last' = CallerOp("load", p, local[p].out, FALSE)
    /\ UNCHANGED <<store, agentMode, payload, fs>>

\* upsert_task, lines 31-38: replace or append in the list loaded, then
\* save_tasks(tasks).
UpsertSave(p) ==
    /\ local[p].pc = "save"
    /\ store' = UpsertTask(local[p].tasks, local[p].out)
    /\ local' = [local EXCEPT ![p] = AtRest]
    /\ last' = CallerOp("save", p, local[p].out, FALSE)
    /\ UNCHANGED <<agentMode, payload, fs>>

\* create_task_direct, lines 624-639: tasks = load_tasks(); the new Task is
\* appended to the list loaded.
CreateLoad(goal) ==
    /\ local.r.pc = "idle"
    /\ Len(store) < MaxStored
    /\ \E m \in {TaskModel(NewTask(NextId(store), goal, "Task created."))} :
        /\ local' = [local EXCEPT !.r =
                        IF m.raised THEN AtRest
                        ELSE Caller("create_save", NoTask, m.task, Append(store, m.task))]
        /\ last' = CallerOp("create", "r", m.task, m.raised)
    /\ UNCHANGED <<store, agentMode, payload, fs>>

\* create_task_direct, line 640: save_tasks(tasks)
CreateSave ==
    /\ local.r.pc = "create_save"
    /\ store' = local.r.tasks
    /\ local' = [local EXCEPT !.r = AtRest]
    /\ last' = CallerOp("create_save", "r", local.r.out, FALSE)
    /\ UNCHANGED <<agentMode, payload, fs>>

\* One step of the worker loop, the services answering from envs.
WorkerStepIn(envs) ==
    \/ WorkerPick
    \/ \E e \in envs : Execute("w", e)
    \/ UpsertLoad("w")
    \/ UpsertSave("w")

WorkerStep == WorkerStepIn(WorkerEnvs)

\* Where the callers race, the completion service gives a text for a step
\* and no plan, so that every plan is the static one.
RaceEnvs == {Env(None, None, Some("print('hi')"), "ok")}

\* One step of a creation request.
CreateStep ==
    \/ \E g \in {<<"build", "app">>} : CreateLoad(g)
    \/ CreateSave

\* One step of a run request.
RunStep ==
    \/ \E id \in 1..MaxStored : RunLoad(id)
    \/ \E e \in RaceEnvs : Execute("r", e)
    \/ UpsertLoad("r")
    \/ UpsertSave("r")

\* A task as SuperBuilderAgent leaves it after run-all with no completion
\* service: every step of the fallback plan completed.
RECURSIVE SuperRunAll(_, _)
SuperRunAll(task, f) ==
    IF task.status = "completed" THEN task
    ELSE SuperRunAll(SuperExecuteTask(task, None, None, f).task, f)

\* The workspace holding one file.
WorkerFs ==
    [p \in FsPaths |-> IF p = Base \/ p \in Ancestors(Base) THEN Dir
                       ELSE IF p = Base \o <<"readme.md">> THEN "old"
                       ELSE Absent]

\* tasks.json at start: one queued task; a completed task alone; or a
\* completed task followed by a queued one.
InitWorker ==
    /\ local = NoLocal
    /\ agentMode = "claude"
    /\ payload = None
    /\ fs = WorkerFs
    /\ store \in { <<NewTask(1, <<"build", "app">>, "Task created.")>>,
                   <<SuperRunAll(NewTask(1, <<"build", "app">>, "Task created."), fs)>>,
                   <<SuperRunAll(NewTask(1, <<"build", "app">>, "Task created."), fs),
                     NewTask(2, <<>>, "Task created.")>> }
    /\ last = CallerOp("init", "w", NoTask, FALSE)

\* The worker is the only executor; requests create tasks.
NextWorker == WorkerStep \/ CreateStep

\* The worker loop never stops: poll, execute, store, sleep, again.
WorkerSpec == InitWorker /\ [][NextWorker]_vars /\ WF_vars(WorkerStep)

\* tasks.json at start with two queued tasks.
InitRace ==
    /\ local = NoLocal
    /\ agentMode = "claude"
    /\ payload = None
    /\ fs = WorkerFs
    /\ store = <<NewTask(1, <<"build", "app">>, "Task created."),
                 NewTask(2, <<>>, "Task created.")>>
    /\ last = CallerOp("init", "w", NoTask, FALSE)

\* The worker next to requests that run and create tasks.
NextRace == WorkerStepIn(RaceEnvs) \/ CreateStep \/ RunStep

RaceSpec == InitRace /\ [][NextRace]_vars

\* C31: nothing keeps two callers from working on the same task at once.
\* While the worker holds a task it loaded and has not yet stored, a run
\* request for that task is served, from the same stored task; and when a
\* caller that read current_step = N stores its result after another caller
\* has stored the result of step N, the stored task is the later caller's
\* result: step N was executed twice and the store is one step further.
C31_NoMutualExclusion ==
    /\ [](\A i \in 1..Len(store) :
            (local.w.pc # "idle" /\ local.w.task.id = store[i].id /\ local.r.pc = "idle")
                => ENABLED RunLoad(store[i].id))
    /\ [][\A p \in {"w", "r"} : \A i \in 1..Len(store) :
            (/\ local[p].pc = "save"
             /\ local'[p].pc = "idle"
             /\ store[i].id = local[p].out.id
             /\ local[p].task.current_step # None
             /\ local[p].task.plan # <<>>
             /\ local[p].out.current_step = Some(local[p].task.current_step[1] + 1)
             /\ store[i].current_step = local[p].out.current_step)
                => /\ i <= Len(store')
                   /\ store'[i] = local[p].out
                   /\ store'[i].current_step = store[i].current_step]_vars

\* The request stored step 2 of task 1 after the worker had stored the same
\* step: both had read current_step = 1.
C31_Witness ==
    /\ last.op = "save"
    /\ last.proc = "r"
    /\ last.task.id = 1
    /\ last.task.current_step = Some(2)
    /\ last.task.plan[2].status = "completed"
    /\ Len(last.before) >= 1
    /\ last.before[1].id = 1
    /\ last.before[1].current_step = Some(2)
    /\ last.before[1].plan[2].status = "completed"
    /\ store[1].current_step = Some(2)

\* C38: a caller that stores task A leaves the stored tasks of every other
\* id as they are: what another caller has created or stored in the meantime
\* is still in tasks.json after A is saved.
C38_UpdatesDoNotInterfere ==
    last.op \in {"save", "create_save"} =>
        \A i \in 1..Len(last.before) :
            last.before[i].id # last.task.id =>
                /\ i <= Len(store)
                /\ store[i] = last.before[i]

\* The store holds a task of the id whose status is one of S.
StoredWith(id, S) == \E i \in 1..Len(store) : store[i].id = id /\ store[i].status \in S

\* C35: with the worker loop running forever and the services answering,
\* every task that is stored queued or in_progress is stored completed at
\* some later time, whatever tasks stand before it in the store.
C35_WorkerCompletesEveryTask ==
    \A id \in 1..MaxStored :
        StoredWith(id, {"queued", "in_progress"}) ~> StoredWith(id, {"completed"})

\* The positions of the stored tasks that are in progress.
InProgressAt(tasks) == {i \in 1..Len(tasks) : tasks[i].status = "in_progress"}

\* C36: the task the worker chooses is the first in_progress task of the
\* list it loaded, or the first queued one when none is in progress, never a
\* completed one; an iteration stores the task it chose and no other; and with
\* the worker as the only executor on a store that started without a task in
\* progress, at most one stored task is in progress at any time.
C36_WorkerPicksOneInOrder ==
    /\ last.op = "pick" =>
            \E i \in 1..Len(last.before) :
                /\ last.task = last.before[i]
                /\ last.task.status \in {"in_progress", "queued"}
                /\ \A j \in 1..(i - 1) : last.before[j].status # last.task.status
                /\ last.task.status = "queued" => InProgressAt(last.before) = {}
    /\ (last.op \in {"execute", "load", "save"} /\ last.proc = "w" /\ ~last.raised) =>
            last.task.id = local.w.task.id \/ local.w = AtRest
    /\ Cardinality(InProgressAt(store)) <= 1

\* The worker continued task 2, in progress between a completed task and a
\* queued one.
C36_Witness ==
    /\ last.op = "pick"
    /\ Len(last.before) = 3
    /\ last.before[1].status = "completed"
    /\ last.before[2].status = "in_progress"
    /\ last.before[3].status = "queued"
    /\ last.task = last.before[2]

====
